---- MODULE Spec2Model ----
(***************************************************************************)
(* kampus: full and incremental indexing of a source tree into a property  *)
(* graph (crates/kampus-core).  The graph backend is modelled by the       *)
(* effect of each Cypher query the core issues; the indexers are modelled  *)
(* one step per awaited call, so that a failing query leaves the graph as  *)
(* the queries before it made it.                                          *)
(***************************************************************************)
EXTENDS Integers, Sequences, FiniteSets, TLC

\* ------------------------------------------------------------------ bounds

MaxRuns == 2
MaxChanges == 2
NumThreads == 2
NumCallers == 2
MaxParses == 2
MaxEntries == 2
MaxItems == 2
MaxFaults == 1
MaxChars == 2

\* ------------------------------------------------------------- data model

None == "none"

Paths == {"a.py", "b.py", "n.txt"}

\* std::path::Path::extension of a file name: what follows the last dot,
\* unless there is no dot or the only dot begins the name.
extension(p) ==
    LET dots == {k \in 1..Len(p) : SubSeq(p, k, k) = "."} IN
    IF dots \subseteq {1} THEN None
    ELSE LET last == CHOOSE k \in dots : \A l \in dots : l <= k
         IN  SubSeq(p, last + 1, Len(p))

\* str::to_lowercase, character by character.
RECURSIVE to_lowercase(_)
to_lowercase(s) ==
    LET Upper == "ABCDEFGHIJKLMNOPQRSTUVWXYZ"
        Lower == "abcdefghijklmnopqrstuvwxyz"
        lower(c) ==
            IF \E k \in 1..Len(Upper) : SubSeq(Upper, k, k) = c
            THEN LET k == CHOOSE l \in 1..Len(Upper) : SubSeq(Upper, l, l) = c
                 IN  SubSeq(Lower, k, k)
            ELSE c
    IN  IF s = "" THEN ""
        ELSE lower(SubSeq(s, 1, 1)) \o to_lowercase(SubSeq(s, 2, Len(s)))

\* Mutant: the extension is matched as it is written.
from_extension_asWritten(ext) ==
    CASE ext = "py" -> "Python"
      [] ext = "rs" -> "Rust"
      [] ext \in {"js", "mjs", "cjs"} -> "JavaScript"
      [] ext \in {"ts", "tsx"} -> "TypeScript"
      [] ext = "go" -> "Go"
      [] ext \in {"cpp", "cc", "cxx", "c++", "hpp", "hxx", "h"} -> "Cpp"
      [] OTHER -> None

from_extension(ext) ==
    LET e == to_lowercase(ext) IN
    CASE e = "py" -> "Python"
      [] e = "rs" -> "Rust"
      [] e \in {"js", "mjs", "cjs"} -> "JavaScript"
      [] e \in {"ts", "tsx"} -> "TypeScript"
      [] e = "go" -> "Go"
      [] e \in {"cpp", "cc", "cxx", "c++", "hpp", "hxx", "h"} -> "Cpp"
      [] OTHER -> None

\* Language::extensions
extensions(language) ==
    CASE language = "Python" -> << "py" >>
      [] language = "Rust" -> << "rs" >>
      [] language = "JavaScript" -> << "js", "mjs", "cjs" >>
      [] language = "TypeScript" -> << "ts", "tsx" >>
      [] language = "Go" -> << "go" >>
      [] language = "Cpp" -> << "cpp", "cc", "cxx", "c++", "hpp", "hxx", "h" >>

\* File names with an extension in another case, with an extension that no
\* language has, and with none.
OtherNames ==
    {"m.PY", "m.Rs", "m.mjs", "m.CJS", "m.tsx", "m.Go", "m.cc", "m.CXX", "m.C++", "m.hpp",
     "m.HXX", "m.h", "m.js", "m.ts", "m.cpp", "m.pyc", "m.c", "m.jsx", "m.", "m", "a.b.rs"}

FileNames == Paths \cup OtherNames

\* path.extension().and_then(|ext| Language::from_extension(ext)), for every
\* file name of the model.
Detected ==
    [name \in FileNames |->
        IF extension(name) = None THEN None ELSE from_extension(extension(name))]

generate_id(file_path, name, start_line) ==
    file_path \o ":" \o name \o ":" \o ToString(start_line)

Symbol(file_path, name, kind, start_line, end_line, parent_id) ==
    [id |-> generate_id(file_path, name, start_line), name |-> name, kind |-> kind,
     file_path |-> file_path, start_line |-> start_line, end_line |-> end_line,
     parent_id |-> parent_id]

SymbolKinds ==
    {"Function", "Class", "Struct", "Interface", "Module", "Method", "Trait", "Enum",
     "Constant", "Variable"}

\* ------------------------------------------------------------ syntax trees
\* A tree_sitter::Node: its kind, its rows, its children in source order,
\* anonymous tokens included; a leaf carries its text.

NoNode == [kind |-> None, text |-> "", row |-> 0, end_row |-> 0, children |-> << >>]

Leaf(kind, text, row) ==
    [kind |-> kind, text |-> text, row |-> row, end_row |-> row, children |-> << >>]

\* An anonymous token: its kind is its text.
Tok(text, row) == Leaf(text, text, row)

Inner(kind, row, end_row, children) ==
    [kind |-> kind, text |-> "", row |-> row, end_row |-> end_row, children |-> children]

\* Option<Symbol>: the empty sequence, or the symbol alone.
NoSymbol == << >>

SomeSymbol(file_path, name, kind, first_line, last_line, parent_id) ==
    << Symbol(file_path, name, kind, first_line, last_line, parent_id) >>

RECURSIVE Flatten(_)
Flatten(seqs) == IF seqs = << >> THEN << >> ELSE Head(seqs) \o Flatten(Tail(seqs))

\* node_text: the source text the node spans, without the white space
\* between its tokens.
RECURSIVE node_text(_)
node_text(node) ==
    LET RECURSIVE TextOfAll(_)
        TextOfAll(nodes) ==
            IF nodes = << >> THEN "" ELSE node_text(Head(nodes)) \o TextOfAll(Tail(nodes))
    IN  IF node.children = << >> THEN node.text ELSE TextOfAll(node.children)

\* The tokens the node spans.
RECURSIVE Tokens(_)
Tokens(node) ==
    IF node.children = << >>
    THEN << node.text >>
    ELSE Flatten([k \in DOMAIN node.children |-> Tokens(node.children[k])])

\* node.child(k): the child at index k, counted from 0
child(node, k) == IF k + 1 \in DOMAIN node.children THEN node.children[k + 1] ELSE NoNode

find_children(node, kind) == SelectSeq(node.children, LAMBDA c : c.kind = kind)

find_child(node, kind) ==
    IF find_children(node, kind) = << >> THEN NoNode ELSE Head(find_children(node, kind))

\* Option::or_else over nodes.
or_else(node, other) == IF node # NoNode THEN node ELSE other

\* The node and its descendants of the kind, in pre-order.
RECURSIVE find_all_nodes(_, _)
find_all_nodes(node, kind) ==
    (IF node.kind = kind THEN << node >> ELSE << >>)
        \o Flatten([k \in DOMAIN node.children |-> find_all_nodes(node.children[k], kind)])

\* The text of a sequence of tokens.
RECURSIVE Concat(_)
Concat(tokens) == IF tokens = << >> THEN "" ELSE Head(tokens) \o Concat(Tail(tokens))

start_line(node) == node.row + 1
end_line(node) == node.end_row + 1

\* ------------------------------------------------------------------ Python

\* PythonExtractor::extract_symbols
PythonSymbols(root, file_path) ==
    LET
        \* PythonExtractor::extract_function
        PythonFunction(node, parent_id) ==
            IF find_child(node, "identifier") = NoNode
            THEN NoSymbol
            ELSE SomeSymbol(file_path, node_text(find_child(node, "identifier")),
                        IF parent_id # None THEN "Method" ELSE "Function",
                        start_line(node), end_line(node), parent_id)
        \* PythonExtractor::extract_class
        PythonClass(node) ==
            IF find_child(node, "identifier") = NoNode
            THEN NoSymbol
            ELSE SomeSymbol(file_path, node_text(find_child(node, "identifier")), "Class",
                        start_line(node), end_line(node), None)
        \* The class symbol and the methods of the class body.
        PythonClassAndMethods(node) ==
            LET class == PythonClass(node)
                methods == find_children(find_child(node, "block"), "function_definition")
            IN  IF class = NoSymbol
                THEN << >>
                ELSE class
                        \o Flatten([k \in DOMAIN methods |->
                                    PythonFunction(methods[k], class[1].id)])
    IN
        LET funcs == find_all_nodes(root, "function_definition")
            classes == find_all_nodes(root, "class_definition")
        IN  Flatten([k \in DOMAIN funcs |-> PythonFunction(funcs[k], None)])
                \o Flatten([k \in DOMAIN classes |->
                                PythonClassAndMethods(classes[k])])

\* PythonExtractor::extract_imports (alias and items are not stored in the graph)
PythonImports(root, file_path) ==
    LET imports == find_all_nodes(root, "import_statement")
        froms == find_all_nodes(root, "import_from_statement")
        Names(node) == find_children(node, "dotted_name")
    IN  Flatten([k \in DOMAIN imports |->
                    [n \in DOMAIN Names(imports[k]) |->
                        [source_file |-> file_path,
                         target |-> node_text(Names(imports[k])[n]),
                         line |-> start_line(imports[k])]]])
            \o [k \in DOMAIN froms |->
                    [source_file |-> file_path,
                     target |-> node_text(or_else(find_child(froms[k], "dotted_name"),
                                                  find_child(froms[k], "relative_import"))),
                     line |-> start_line(froms[k])]]

\* for symbol in symbols.iter().filter(Function or Method): the call nodes on
\* the lines of the symbol whose callee name is not empty, in tree order.
CallsOf(symbols, call_nodes, callee_names) ==
    LET callers == SelectSeq(symbols, LAMBDA s : s.kind \in {"Function", "Method"})
        Site(k) == [line |-> start_line(call_nodes[k]), name |-> callee_names[k]]
        sites == [k \in DOMAIN call_nodes |-> Site(k)]
        CallsWithin(symbol) ==
            LET inside == SelectSeq(sites, LAMBDA c : /\ c.line >= symbol.start_line
                                                      /\ c.line <= symbol.end_line
                                                      /\ c.name # "")
            IN  [k \in DOMAIN inside |->
                    [caller_id |-> symbol.id, callee_name |-> inside[k].name,
                     call_site_line |-> inside[k].line]]
    IN  Flatten([k \in DOMAIN callers |-> CallsWithin(callers[k])])

\* PythonExtractor::extract_calls
PythonCalls(root, symbols) ==
    LET
        PythonCallee(call_node) ==
            LET func == child(call_node, 0) IN
            CASE func.kind = "identifier" -> node_text(func)
              [] func.kind = "attribute" -> node_text(find_child(func, "identifier"))
              [] OTHER -> ""
    IN
        LET call_nodes == find_all_nodes(root, "call")
        IN  CallsOf(symbols, call_nodes,
                    [k \in DOMAIN call_nodes |-> PythonCallee(call_nodes[k])])

\* symbols.iter().find(|s| kind test && s.name == name): empty, or the first
\* symbol of one of the kinds with the name
find(symbols, kinds, name) ==
    LET matching == SelectSeq(symbols, LAMBDA s : s.kind \in kinds /\ s.name = name)
    IN  IF matching = << >> THEN NoSymbol ELSE << Head(matching) >>

\* PythonExtractor::extract_inheritance
PythonInheritance(root, symbols) ==
    LET classes == find_all_nodes(root, "class_definition")
        Of(node) ==
            LET class_name == node_text(find_child(node, "identifier"))
                symbol == find(symbols, {"Class"}, class_name)
                bases == SelectSeq(find_child(node, "argument_list").children,
                                   LAMBDA b : b.kind \in {"identifier", "attribute"})
            IN  IF symbol = NoSymbol
                THEN << >>
                ELSE [b \in DOMAIN bases |->
                        [child_id |-> symbol[1].id, parent_name |-> node_text(bases[b])]]
    IN  Flatten([k \in DOMAIN classes |-> Of(classes[k])])

\* The tree ParserPool::parse returns for an item of a Python text that starts
\* at the row.
PythonTree(item, row) ==
    LET
        \* Python sources. Item(r) is the tree of the text starting at row r.
        PyImport(r) ==
            \* import os
            Inner("import_statement", r, r,
                  << Tok("import", r), Inner("dotted_name", r, r, << Leaf("identifier", "os", r) >>) >>)
        PyCallStatement(callee, r) ==
            \* g()
            Inner("expression_statement", r, r,
                  << Inner("call", r, r,
                           << Leaf("identifier", callee, r),
                              Inner("argument_list", r, r, << Tok("(", r), Tok(")", r) >>) >>) >>)
        PyPass(r) == Inner("pass_statement", r, r, << Tok("pass", r) >>)
        PyDef(name, r, end_row, body) ==
            Inner("function_definition", r, end_row,
                  << Tok("def", r), Leaf("identifier", name, r),
                     Inner("parameters", r, r, << Tok("(", r), Tok(")", r) >>), Tok(":", r),
                     Inner("block", body[1].row, end_row, body) >>)
        PyFunctionG(r) ==
            \* def g(): pass
            PyDef("g", r, r, << PyPass(r) >>)
        PyFunctionF(r) ==
            \* def f():
            \*     g()
            PyDef("f", r, r + 1, << PyCallStatement("g", r + 1) >>)
        PyClassB(r) ==
            \* class B: pass
            Inner("class_definition", r, r,
                  << Tok("class", r), Leaf("identifier", "B", r), Tok(":", r),
                     Inner("block", r, r, << PyPass(r) >>) >>)
        PyClassA(r) ==
            \* class A(B):
            \*     def m(self):
            \*         g()
            Inner("class_definition", r, r + 2,
                  << Tok("class", r), Leaf("identifier", "A", r),
                     Inner("argument_list", r, r,
                           << Tok("(", r), Leaf("identifier", "B", r), Tok(")", r) >>),
                     Tok(":", r),
                     Inner("block", r + 1, r + 2,
                           << PyDef("m", r + 1, r + 2, << PyCallStatement("g", r + 2) >>) >>) >>)
    IN
        CASE item = "PyImport" -> PyImport(row)
          [] item = "PyFunctionG" -> PyFunctionG(row)
          [] item = "PyFunctionF" -> PyFunctionF(row)
          [] item = "PyClassB" -> PyClassB(row)
          [] item = "PyClassA" -> PyClassA(row)

\* ---------------------------------------------------------------------- Go

\* GoExtractor::extract_symbols: functions, then methods, then types.
GoSymbols(root, file_path) ==
    LET
        \* GoExtractor::extract_function
        GoFunction(node) ==
            IF find_child(node, "identifier") = NoNode
            THEN NoSymbol
            ELSE SomeSymbol(file_path, node_text(find_child(node, "identifier")), "Function",
                        start_line(node), end_line(node), None)
        \* str::trim_start_matches(ch) over the tokens of a node
        RECURSIVE trim_start_matches(_, _)
        trim_start_matches(tokens, ch) ==
            IF tokens # << >> /\ Head(tokens) = ch
            THEN trim_start_matches(Tail(tokens), ch)
            ELSE tokens
        \* The receiver type of a method_declaration, None when it has none.
        GoReceiverType(node) ==
            LET params == find_child(node, "parameter_list")
                param == find_child(params, "parameter_declaration")
                type == or_else(find_child(param, "type_identifier"),
                                find_child(param, "pointer_type"))
            IN  IF type = NoNode THEN None ELSE Concat(trim_start_matches(Tokens(type), "*"))
        \* GoExtractor::extract_method
        GoMethod(node, existing_symbols) ==
            IF find_child(node, "field_identifier") = NoNode
            THEN NoSymbol
            ELSE LET rt == GoReceiverType(node)
                     struct == IF rt = None
                               THEN NoSymbol
                               ELSE find(existing_symbols, {"Struct"}, rt)
                 IN  SomeSymbol(file_path, node_text(find_child(node, "field_identifier")),
                                "Method", start_line(node), end_line(node),
                                IF struct = NoSymbol THEN None ELSE struct[1].id)
        \* GoExtractor::extract_type_spec
        GoTypeSpec(node) ==
            IF find_child(node, "type_identifier") = NoNode
            THEN NoSymbol
            ELSE SomeSymbol(file_path, node_text(find_child(node, "type_identifier")),
                        IF find_child(node, "struct_type") # NoNode THEN "Struct" ELSE "Interface",
                        start_line(node), end_line(node), None)
    IN
        LET funcs == find_all_nodes(root, "function_declaration")
            methods == find_all_nodes(root, "method_declaration")
            types == find_all_nodes(root, "type_declaration")
            functions == Flatten([k \in DOMAIN funcs |-> GoFunction(funcs[k])])
            Specs(node) == find_children(node, "type_spec")
        IN  functions
                \o Flatten([k \in DOMAIN methods |-> GoMethod(methods[k], functions)])
                \o Flatten([k \in DOMAIN types |->
                        Flatten([n \in DOMAIN Specs(types[k]) |->
                                GoTypeSpec(Specs(types[k])[n])])])

\* GoExtractor::extract_imports
GoImports(root, file_path) ==
    LET
        \* str::trim_matches('"') of a string literal: the text between the quotes.
        Unquoted(node) == node_text(find_child(node, "interpreted_string_literal_content"))
    IN
        LET decls == find_all_nodes(root, "import_declaration")
            Import(path, line) ==
                [source_file |-> file_path, target |-> Unquoted(path), line |-> line]
            Single(node) ==
                IF find_child(node, "interpreted_string_literal") = NoNode
                THEN << >>
                ELSE << Import(find_child(node, "interpreted_string_literal"), start_line(node)) >>
            Listed(node) ==
                LET specs == SelectSeq(
                        find_children(find_child(node, "import_spec_list"), "import_spec"),
                        LAMBDA c : find_child(c, "interpreted_string_literal") # NoNode)
                IN  [n \in DOMAIN specs |->
                        Import(find_child(specs[n], "interpreted_string_literal"),
                               start_line(specs[n]))]
        IN  Flatten([k \in DOMAIN decls |-> Single(decls[k]) \o Listed(decls[k])])

\* GoExtractor::extract_calls
GoCalls(root, symbols) ==
    LET
        GoCallee(call_node) ==
            LET func == child(call_node, 0) IN
            CASE func.kind = "identifier" -> node_text(func)
              [] func.kind = "selector_expression" -> node_text(find_child(func, "field_identifier"))
              [] OTHER -> ""
    IN
        LET call_nodes == find_all_nodes(root, "call_expression")
        IN  CallsOf(symbols, call_nodes,
                    [k \in DOMAIN call_nodes |-> GoCallee(call_nodes[k])])

\* GoExtractor::extract_inheritance: embedded struct fields and embedded
\* interfaces.
GoInheritance(root, symbols) ==
    LET specs == find_all_nodes(root, "type_spec")
        Of(node) ==
            LET type_name == node_text(find_child(node, "type_identifier"))
                struct == find(symbols, {"Struct"}, type_name)
                interface == find(symbols, {"Interface"}, type_name)
                embedded == SelectSeq(
                    find_children(find_child(find_child(node, "struct_type"),
                                             "field_declaration_list"),
                                  "field_declaration"),
                    LAMBDA f : /\ find_child(f, "field_identifier") = NoNode
                               /\ find_child(f, "type_identifier") # NoNode)
                extended == find_children(find_child(node, "interface_type"),
                                          "type_identifier")
            IN  (IF struct = NoSymbol
                 THEN << >>
                 ELSE [f \in DOMAIN embedded |->
                        [child_id |-> struct[1].id,
                         parent_name |-> node_text(find_child(embedded[f],
                                                              "type_identifier"))]])
                \o (IF interface = NoSymbol
                    THEN << >>
                    ELSE [f \in DOMAIN extended |->
                            [child_id |-> interface[1].id,
                             parent_name |-> node_text(extended[f])]])
    IN  Flatten([k \in DOMAIN specs |-> Of(specs[k])])

\* The tree ParserPool::parse returns for an item of a Go text that starts
\* at the row.
GoTree(item, row) ==
    LET
        \* Go sources.
        GoParams(r) == Inner("parameter_list", r, r, << Tok("(", r), Tok(")", r) >>)
        GoCallStatement(callee, r) ==
            \* g()
            Inner("expression_statement", r, r,
                  << Inner("call_expression", r, r,
                           << Leaf("identifier", callee, r),
                              Inner("argument_list", r, r, << Tok("(", r), Tok(")", r) >>) >>) >>)
        GoBlock(r, end_row, statements) ==
            Inner("block", r, end_row, << Tok("{", r) >> \o statements \o << Tok("}", end_row) >>)
        GoImport(r) ==
            \* import "fmt"
            Inner("import_declaration", r, r,
                  << Tok("import", r),
                     Inner("import_spec", r, r,
                           << Inner("interpreted_string_literal", r, r,
                                    << Tok("\"", r),
                                       Leaf("interpreted_string_literal_content", "fmt", r),
                                       Tok("\"", r) >>) >>) >>)
        GoFunctionF(r) ==
            \* func f() {
            \*     g()
            \* }
            Inner("function_declaration", r, r + 2,
                  << Tok("func", r), Leaf("identifier", "f", r), GoParams(r),
                     GoBlock(r, r + 2, << GoCallStatement("g", r + 1) >>) >>)
        GoReceiver(type, r) ==
            Inner("parameter_list", r, r,
                  << Tok("(", r),
                     Inner("parameter_declaration", r, r, << Leaf("identifier", "s", r), type >>),
                     Tok(")", r) >>)
        GoMethodM(r) ==
            \* func (s S) M() {}
            Inner("method_declaration", r, r,
                  << Tok("func", r), GoReceiver(Leaf("type_identifier", "S", r), r),
                     Leaf("field_identifier", "M", r), GoParams(r), GoBlock(r, r, << >>) >>)
        GoMethodP(r) ==
            \* func (s *S) P() {
            \*     g()
            \* }
            Inner("method_declaration", r, r + 2,
                  << Tok("func", r),
                     GoReceiver(Inner("pointer_type", r, r,
                                      << Tok("*", r), Leaf("type_identifier", "S", r) >>), r),
                     Leaf("field_identifier", "P", r), GoParams(r),
                     GoBlock(r, r + 2, << GoCallStatement("g", r + 1) >>) >>)
        GoStructS(r) ==
            \* type S struct {
            \*     B
            \* }
            Inner("type_declaration", r, r + 2,
                  << Tok("type", r),
                     Inner("type_spec", r, r + 2,
                           << Leaf("type_identifier", "S", r),
                              Inner("struct_type", r, r + 2,
                                    << Tok("struct", r),
                                       Inner("field_declaration_list", r, r + 2,
                                             << Tok("{", r),
                                                Inner("field_declaration", r + 1, r + 1,
                                                      << Leaf("type_identifier", "B", r + 1) >>),
                                                Tok("}", r + 2) >>) >>) >>) >>)
        GoInterfaceI(r) ==
            \* type I interface {}
            Inner("type_declaration", r, r,
                  << Tok("type", r),
                     Inner("type_spec", r, r,
                           << Leaf("type_identifier", "I", r),
                              Inner("interface_type", r, r,
                                    << Tok("interface", r), Tok("{", r), Tok("}", r) >>) >>) >>)
    IN
        CASE item = "GoImport" -> GoImport(row)
          [] item = "GoFunctionF" -> GoFunctionF(row)
          [] item = "GoMethodM" -> GoMethodM(row)
          [] item = "GoMethodP" -> GoMethodP(row)
          [] item = "GoStructS" -> GoStructS(row)
          [] item = "GoInterfaceI" -> GoInterfaceI(row)

\* -------------------------------------------------------------------- Rust

\* RustExtractor::extract_symbols: functions, structs, enums, traits, then
\* the methods of the impl blocks.
RustSymbols(root, file_path) ==
    LET
        \* RustExtractor::extract_function / extract_struct / extract_enum /
        \* extract_trait: the name is the first child of the name kind.
        RustItem(node, name_kind, kind) ==
            IF find_child(node, name_kind) = NoNode
            THEN NoSymbol
            ELSE SomeSymbol(file_path, node_text(find_child(node, name_kind)), kind,
                        start_line(node), end_line(node), None)
        RustItems(node_kind, name_kind, kind) ==
            LET nodes == find_all_nodes(root, node_kind)
            IN  Flatten([k \in DOMAIN nodes |-> RustItem(nodes[k], name_kind, kind)])
        \* The type an impl_item is taken to implement: its first type_identifier
        \* child, else its first generic_type child.
        RustImplType(node) ==
            LET type == or_else(find_child(node, "type_identifier"),
                                find_child(node, "generic_type"))
            IN  IF type = NoNode THEN None ELSE node_text(type)
        \* The methods of one impl_item, given the symbols pushed before it.
        RustImplMethods(node, symbols) ==
            LET type_name == RustImplType(node)
                funcs == find_children(find_child(node, "declaration_list"), "function_item")
                parent == IF type_name = None
                          THEN NoSymbol
                          ELSE find(symbols, {"Struct", "Enum"}, type_name)
                methods == Flatten([k \in DOMAIN funcs |->
                                    RustItem(funcs[k], "identifier", "Function")])
            IN  [k \in DOMAIN methods |->
                    [methods[k] EXCEPT !.kind = "Method",
                                       !.parent_id = IF parent = NoSymbol THEN None ELSE parent[1].id]]
    IN
        LET items == RustItems("function_item", "identifier", "Function")
                        \o RustItems("struct_item", "type_identifier", "Struct")
                        \o RustItems("enum_item", "type_identifier", "Enum")
                        \o RustItems("trait_item", "type_identifier", "Trait")
            impls == find_all_nodes(root, "impl_item")
        IN  items \o Flatten([k \in DOMAIN impls |-> RustImplMethods(impls[k], items)])

\* RustExtractor::parse_use_clause: the target
parse_use_clause(node) ==
    CASE node.kind \in {"scoped_identifier", "identifier"} -> node_text(node)
      [] node.kind = "use_as_clause" -> node_text(child(node, 0))
      [] node.kind = "scoped_use_list" ->
            node_text(or_else(find_child(node, "scoped_identifier"),
                              find_child(node, "identifier")))
      [] node.kind = "use_wildcard" -> node_text(child(node, 0)) \o "::*"
      [] OTHER -> node_text(node)

\* RustExtractor::extract_imports
RustImports(root, file_path) ==
    LET uses_ == SelectSeq(find_all_nodes(root, "use_declaration"),
                           LAMBDA n : child(n, 1) # NoNode)
        externs == SelectSeq(find_all_nodes(root, "extern_crate_declaration"),
                             LAMBDA n : find_child(n, "identifier") # NoNode)
    IN  [k \in DOMAIN uses_ |->
            [source_file |-> file_path, target |-> parse_use_clause(child(uses_[k], 1)),
             line |-> start_line(uses_[k])]]
        \o [k \in DOMAIN externs |->
            [source_file |-> file_path,
             target |-> node_text(find_child(externs[k], "identifier")),
             line |-> start_line(externs[k])]]

\* RustExtractor::extract_calls
RustCalls(root, symbols) ==
    LET
        RustCallee(call_node) ==
            LET func == child(call_node, 0) IN
            CASE func.kind = "identifier" -> node_text(func)
              [] func.kind = "field_expression" -> node_text(find_child(func, "field_identifier"))
              [] func.kind = "scoped_identifier" -> node_text(func)
              [] OTHER -> ""
    IN
        LET call_nodes == find_all_nodes(root, "call_expression")
        IN  CallsOf(symbols, call_nodes,
                    [k \in DOMAIN call_nodes |-> RustCallee(call_nodes[k])])

\* RustExtractor::extract_inheritance: impl Trait for Type
RustInheritance(root, symbols) ==
    LET
        \* text.contains(" for "): the keyword among the tokens of the node
        contains_for(node) == \E k \in DOMAIN Tokens(node) : Tokens(node)[k] = "for"
    IN
        LET impls == SelectSeq(find_all_nodes(root, "impl_item"), contains_for)
            Of(node) ==
                LET types == SelectSeq(node.children,
                                       LAMBDA c : c.kind \in {"type_identifier", "generic_type"})
                    symbol == find(symbols, SymbolKinds, node_text(types[Len(types)]))
                IN  IF Len(types) < 2 \/ symbol = NoSymbol
                    THEN << >>
                    ELSE << [child_id |-> symbol[1].id, parent_name |-> node_text(types[1])] >>
        IN  Flatten([k \in DOMAIN impls |-> Of(impls[k])])

\* The tree ParserPool::parse returns for an item of a Rust text that starts
\* at the row.
RustTree(item, row) ==
    LET
        \* Rust sources.
        RsParams(r) == Inner("parameters", r, r, << Tok("(", r), Tok(")", r) >>)
        RsSelfParams(r) ==
            Inner("parameters", r, r,
                  << Tok("(", r),
                     Inner("self_parameter", r, r, << Tok("&", r), Leaf("self", "self", r) >>),
                     Tok(")", r) >>)
        RsBlock(r, end_row, statements) ==
            Inner("block", r, end_row, << Tok("{", r) >> \o statements \o << Tok("}", end_row) >>)
        RsCallStatement(callee, r) ==
            \* g();
            Inner("expression_statement", r, r,
                  << Inner("call_expression", r, r,
                           << Leaf("identifier", callee, r),
                              Inner("arguments", r, r, << Tok("(", r), Tok(")", r) >>) >>),
                     Tok(";", r) >>)
        RsFn(name, params, r, end_row, statements) ==
            Inner("function_item", r, end_row,
                  << Tok("fn", r), Leaf("identifier", name, r), params,
                     RsBlock(r, end_row, statements) >>)
        RsUse(r) ==
            \* use std::fmt;
            Inner("use_declaration", r, r,
                  << Tok("use", r),
                     Inner("scoped_identifier", r, r,
                           << Leaf("identifier", "std", r), Tok("::", r),
                              Leaf("identifier", "fmt", r) >>),
                     Tok(";", r) >>)
        RsStructS(r) ==
            \* struct S;
            Inner("struct_item", r, r,
                  << Tok("struct", r), Leaf("type_identifier", "S", r), Tok(";", r) >>)
        RsEnumE(r) ==
            \* enum E {}
            Inner("enum_item", r, r,
                  << Tok("enum", r), Leaf("type_identifier", "E", r),
                     Inner("enum_variant_list", r, r, << Tok("{", r), Tok("}", r) >>) >>)
        RsTraitT(r) ==
            \* trait T {}
            Inner("trait_item", r, r,
                  << Tok("trait", r), Leaf("type_identifier", "T", r),
                     Inner("declaration_list", r, r, << Tok("{", r), Tok("}", r) >>) >>)
        RsFnF(r) ==
            \* fn f() {
            \*     g();
            \* }
            RsFn("f", RsParams(r), r, r + 2, << RsCallStatement("g", r + 1) >>)
        RsFnS(r) ==
            \* fn S() {}
            RsFn("S", RsParams(r), r, r, << >>)
        RsImplS(r) ==
            \* impl S {
            \*     fn m(&self) { g(); }
            \* }
            Inner("impl_item", r, r + 2,
                  << Tok("impl", r), Leaf("type_identifier", "S", r),
                     Inner("declaration_list", r, r + 2,
                           << Tok("{", r),
                              RsFn("m", RsSelfParams(r + 1), r + 1, r + 1,
                                   << RsCallStatement("g", r + 1) >>),
                              Tok("}", r + 2) >>) >>)
        RsImplTForS(r) ==
            \* impl T for S { fn f(&self) {} }
            Inner("impl_item", r, r,
                  << Tok("impl", r), Leaf("type_identifier", "T", r), Tok("for", r),
                     Leaf("type_identifier", "S", r),
                     Inner("declaration_list", r, r,
                           << Tok("{", r), RsFn("f", RsSelfParams(r), r, r, << >>),
                              Tok("}", r) >>) >>)
    IN
        CASE item = "RsUse" -> RsUse(row)
          [] item = "RsStructS" -> RsStructS(row)
          [] item = "RsEnumE" -> RsEnumE(row)
          [] item = "RsTraitT" -> RsTraitT(row)
          [] item = "RsFnF" -> RsFnF(row)
          [] item = "RsFnS" -> RsFnS(row)
          [] item = "RsImplS" -> RsImplS(row)
          [] item = "RsImplTForS" -> RsImplTForS(row)

\* -------------------------------------------------------------- JavaScript

\* JavaScriptExtractor::extract_function / extract_class / extract_method
JavaScriptItem(node, name_kind, kind, file_path, parent_id) ==
    IF find_child(node, name_kind) = NoNode
    THEN NoSymbol
    ELSE SomeSymbol(file_path, node_text(find_child(node, name_kind)), kind,
                start_line(node), end_line(node), parent_id)

\* JavaScriptExtractor::extract_arrow_function: the start line is the
\* binding identifier's, the end line the arrow function's.
extract_arrow_function(node, name_node, file_path) ==
    Symbol(file_path, node_text(name_node), "Function",
           start_line(name_node), end_line(node), None)

\* JavaScriptExtractor::extract_symbols: function declarations, arrow
\* functions bound in lexical then variable declarations, classes.
JavaScriptSymbols(root, file_path) ==
    LET
        \* The arrow functions bound by the declarators of one declaration.
        JavaScriptArrows(node) ==
            LET declarators ==
                    SelectSeq(find_children(node, "variable_declarator"),
                              LAMBDA d : /\ find_child(d, "arrow_function") # NoNode
                                         /\ find_child(d, "identifier") # NoNode)
            IN  [k \in DOMAIN declarators |->
                    extract_arrow_function(find_child(declarators[k], "arrow_function"),
                                           find_child(declarators[k], "identifier"),
                                           file_path)]
        JavaScriptClassAndMethods(node) ==
            LET class == JavaScriptItem(node, "identifier", "Class", file_path, None)
                methods == find_children(find_child(node, "class_body"), "method_definition")
            IN  IF class = NoSymbol
                THEN << >>
                ELSE class
                        \o Flatten([k \in DOMAIN methods |->
                                    JavaScriptItem(methods[k], "property_identifier", "Method",
                                                   file_path, class[1].id)])
    IN
        LET funcs == find_all_nodes(root, "function_declaration")
            vars_ == find_all_nodes(root, "lexical_declaration")
                        \o find_all_nodes(root, "variable_declaration")
            classes == find_all_nodes(root, "class_declaration")
        IN  Flatten([k \in DOMAIN funcs |->
                    JavaScriptItem(funcs[k], "identifier", "Function", file_path,
                                   None)])
                \o Flatten([k \in DOMAIN vars_ |-> JavaScriptArrows(vars_[k])])
                \o Flatten([k \in DOMAIN classes |->
                                JavaScriptClassAndMethods(classes[k])])

\* JavaScriptExtractor::extract_imports: ES6 imports, then require calls.
JavaScriptImports(root, file_path) ==
    LET
        \* trim_matches('"').trim_matches('\'') of a string: the text between the quotes
        StringFragment(node) == node_text(find_child(node, "string_fragment"))
    IN
        LET imports == find_all_nodes(root, "import_statement")
            requires == SelectSeq(find_all_nodes(root, "call_expression"),
                                  LAMBDA c : /\ node_text(child(c, 0)) = "require"
                                             /\ child(find_child(c, "arguments"), 1) # NoNode)
        IN  [k \in DOMAIN imports |->
                [source_file |-> file_path,
                 target |-> StringFragment(find_child(imports[k], "string")),
                 line |-> start_line(imports[k])]]
            \o [k \in DOMAIN requires |->
                [source_file |-> file_path,
                 target |-> StringFragment(child(find_child(requires[k], "arguments"), 1)),
                 line |-> start_line(requires[k])]]

\* JavaScriptExtractor::extract_calls
JavaScriptCalls(root, symbols) ==
    LET
        JavaScriptCallee(call_node) ==
            LET func == child(call_node, 0)
                name == CASE func.kind = "identifier" -> node_text(func)
                          [] func.kind = "member_expression" ->
                                node_text(find_child(func, "property_identifier"))
                          [] OTHER -> ""
            IN  IF name = "require" THEN "" ELSE name
    IN
        LET call_nodes == find_all_nodes(root, "call_expression")
        IN  CallsOf(symbols, call_nodes,
                    [k \in DOMAIN call_nodes |-> JavaScriptCallee(call_nodes[k])])

\* JavaScriptExtractor::extract_inheritance: class C extends B
JavaScriptInheritance(root, symbols) ==
    LET classes == find_all_nodes(root, "class_declaration")
        Of(node) ==
            LET class_name == node_text(find_child(node, "identifier"))
                extends == find_child(find_child(node, "class_heritage"), "identifier")
                symbol == find(symbols, {"Class"}, class_name)
            IN  IF extends = NoNode \/ symbol = NoSymbol
                THEN << >>
                ELSE << [child_id |-> symbol[1].id, parent_name |-> node_text(extends)] >>
    IN  Flatten([k \in DOMAIN classes |-> Of(classes[k])])

\* -------------------------------------------------------------- TypeScript
\* The JavaScript extractor, and interfaces and type aliases besides.

TypeScriptSymbols(root, file_path) ==
    LET interfaces == find_all_nodes(root, "interface_declaration")
        aliases == find_all_nodes(root, "type_alias_declaration")
    IN  JavaScriptSymbols(root, file_path)
            \o Flatten([k \in DOMAIN interfaces |->
                        JavaScriptItem(interfaces[k], "type_identifier", "Interface",
                                       file_path, None)])
            \o Flatten([k \in DOMAIN aliases |->
                        JavaScriptItem(aliases[k], "type_identifier", "Interface",
                                       file_path, None)])

\* The tree ParserPool::parse returns for an item of a JavaScript text that starts
\* at the row.
JavaScriptTree(item, row) ==
    LET
        \* JavaScript and TypeScript sources.
        JsParams(r) == Inner("formal_parameters", r, r, << Tok("(", r), Tok(")", r) >>)
        JsCallStatement(callee, r) ==
            \* g();
            Inner("expression_statement", r, r,
                  << Inner("call_expression", r, r,
                           << Leaf("identifier", callee, r),
                              Inner("arguments", r, r, << Tok("(", r), Tok(")", r) >>) >>),
                     Tok(";", r) >>)
        JsBlock(r, end_row, statements) ==
            Inner("statement_block", r, end_row,
                  << Tok("{", r) >> \o statements \o << Tok("}", end_row) >>)
        JsString(text, r) ==
            Inner("string", r, r, << Tok("'", r), Leaf("string_fragment", text, r), Tok("'", r) >>)
        JsImport(r) ==
            \* import x from 'y';
            Inner("import_statement", r, r,
                  << Tok("import", r),
                     Inner("import_clause", r, r, << Leaf("identifier", "x", r) >>),
                     Tok("from", r), JsString("y", r), Tok(";", r) >>)
        JsFunctionF(r) ==
            \* function f() {
            \*   g();
            \* }
            Inner("function_declaration", r, r + 2,
                  << Tok("function", r), Leaf("identifier", "f", r), JsParams(r),
                     JsBlock(r, r + 2, << JsCallStatement("g", r + 1) >>) >>)
        JsArrowH(r) ==
            \* const
            \*   h = () => {
            \*     g();
            \*   };
            Inner("lexical_declaration", r, r + 3,
                  << Tok("const", r),
                     Inner("variable_declarator", r + 1, r + 3,
                           << Leaf("identifier", "h", r + 1), Tok("=", r + 1),
                              Inner("arrow_function", r + 1, r + 3,
                                    << JsParams(r + 1), Tok("=>", r + 1),
                                       JsBlock(r + 1, r + 3,
                                               << JsCallStatement("g", r + 2) >>) >>) >>),
                     Tok(";", r + 3) >>)
        JsArrowK(r) ==
            \* var k =
            \*   x => g();
            Inner("variable_declaration", r, r + 1,
                  << Tok("var", r),
                     Inner("variable_declarator", r, r + 1,
                           << Leaf("identifier", "k", r), Tok("=", r),
                              Inner("arrow_function", r + 1, r + 1,
                                    << Leaf("identifier", "x", r + 1), Tok("=>", r + 1),
                                       Inner("call_expression", r + 1, r + 1,
                                             << Leaf("identifier", "g", r + 1),
                                                Inner("arguments", r + 1, r + 1,
                                                      << Tok("(", r + 1), Tok(")", r + 1) >>) >>)
                                    >>) >>),
                     Tok(";", r + 1) >>)
        JsClassC(r) ==
            \* class C extends B {
            \*   m() { g(); }
            \* }
            Inner("class_declaration", r, r + 2,
                  << Tok("class", r), Leaf("identifier", "C", r),
                     Inner("class_heritage", r, r,
                           << Tok("extends", r), Leaf("identifier", "B", r) >>),
                     Inner("class_body", r, r + 2,
                           << Tok("{", r),
                              Inner("method_definition", r + 1, r + 1,
                                    << Leaf("property_identifier", "m", r + 1), JsParams(r + 1),
                                       JsBlock(r + 1, r + 1,
                                               << JsCallStatement("g", r + 1) >>) >>),
                              Tok("}", r + 2) >>) >>)
    IN
        CASE item = "JsImport" -> JsImport(row)
          [] item = "JsFunctionF" -> JsFunctionF(row)
          [] item = "JsArrowH" -> JsArrowH(row)
          [] item = "JsArrowK" -> JsArrowK(row)
          [] item = "JsClassC" -> JsClassC(row)

\* The tree ParserPool::parse returns for an item of a TypeScript text that starts
\* at the row.
TypeScriptTree(item, row) ==
    LET
        TsInterfaceI(r) ==
            \* interface I {}
            Inner("interface_declaration", r, r,
                  << Tok("interface", r), Leaf("type_identifier", "I", r),
                     Inner("interface_body", r, r, << Tok("{", r), Tok("}", r) >>) >>)
        TsAliasA(r) ==
            \* type A = B;
            Inner("type_alias_declaration", r, r,
                  << Tok("type", r), Leaf("type_identifier", "A", r), Tok("=", r),
                     Leaf("type_identifier", "B", r), Tok(";", r) >>)
    IN
        CASE item = "TsInterfaceI" -> TsInterfaceI(row)
          [] item = "TsAliasA" -> TsAliasA(row)
          [] OTHER -> JavaScriptTree(item, row)

\* --------------------------------------------------------------------- C++

\* CppExtractor::extract_function_name: None when the declarator names the
\* function in no way the extractor knows.
RECURSIVE extract_function_name(_)
extract_function_name(declarator) ==
    CASE find_child(declarator, "identifier") # NoNode ->
            node_text(find_child(declarator, "identifier"))
      [] find_child(declarator, "qualified_identifier") # NoNode ->
            node_text(find_child(declarator, "qualified_identifier"))
      [] find_child(declarator, "destructor_name") # NoNode ->
            node_text(find_child(declarator, "destructor_name"))
      [] find_child(declarator, "function_declarator") # NoNode ->
            extract_function_name(find_child(declarator, "function_declarator"))
      [] OTHER -> None

\* Mutant: the method declaration starts where the declaration starts and
\* is identified by the declarator's line.
extract_method_declaration_mixed(declaration, declarator, file_path, parent_id) ==
    IF extract_function_name(declarator) = None
    THEN NoSymbol
    ELSE << [Symbol(file_path, extract_function_name(declarator), "Method",
                    start_line(declarator), end_line(declarator), parent_id)
                EXCEPT !.start_line = start_line(declaration)] >>

\* CppExtractor::extract_method_declaration: the lines are the declarator's.
extract_method_declaration(declaration, declarator, file_path, parent_id) ==
    IF extract_function_name(declarator) = None
    THEN NoSymbol
    ELSE SomeSymbol(file_path, extract_function_name(declarator), "Method",
                start_line(declarator), end_line(declarator), parent_id)

\* CppExtractor::extract_symbols: function definitions, classes then
\* structs with their methods, enums.
CppSymbols(root, file_path) ==
    LET
        \* CppExtractor::extract_function
        CppFunction(node, parent_id) ==
            LET declarator == or_else(find_child(node, "function_declarator"),
                                      find_child(node, "pointer_declarator"))
            IN  IF declarator = NoNode \/ extract_function_name(declarator) = None
                THEN NoSymbol
                ELSE SomeSymbol(file_path, extract_function_name(declarator),
                            IF parent_id # None THEN "Method" ELSE "Function",
                            start_line(node), end_line(node), parent_id)
        \* CppExtractor::extract_class
        CppClass(node) ==
            IF find_child(node, "type_identifier") = NoNode
            THEN NoSymbol
            ELSE SomeSymbol(file_path, node_text(find_child(node, "type_identifier")),
                        IF node.kind = "struct_specifier" THEN "Struct" ELSE "Class",
                        start_line(node), end_line(node), None)
        \* One child of a class body: a method definition, a method declaration,
        \* or nothing.
        CppMember(member, class_id) ==
            CASE member.kind = "function_definition" -> CppFunction(member, class_id)
              [] member.kind = "declaration"
                    /\ find_child(member, "function_declarator") # NoNode ->
                        extract_method_declaration(member, find_child(member, "function_declarator"),
                                                   file_path, class_id)
              [] OTHER -> NoSymbol
        CppClassAndMethods(node) ==
            LET class == CppClass(node)
                members == find_child(node, "field_declaration_list").children
            IN  IF class = NoSymbol
                THEN << >>
                ELSE class
                        \o Flatten([k \in DOMAIN members |-> CppMember(members[k], class[1].id)])
        \* CppExtractor::extract_enum
        CppEnum(node) ==
            IF find_child(node, "type_identifier") = NoNode
            THEN NoSymbol
            ELSE SomeSymbol(file_path, node_text(find_child(node, "type_identifier")), "Enum",
                        start_line(node), end_line(node), None)
    IN
        LET funcs == find_all_nodes(root, "function_definition")
            classes == find_all_nodes(root, "class_specifier")
                        \o find_all_nodes(root, "struct_specifier")
            enums == find_all_nodes(root, "enum_specifier")
        IN  Flatten([k \in DOMAIN funcs |-> CppFunction(funcs[k], None)])
                \o Flatten([k \in DOMAIN classes |-> CppClassAndMethods(classes[k])])
                \o Flatten([k \in DOMAIN enums |-> CppEnum(enums[k])])

\* CppExtractor::extract_imports: #include directives, then using declarations.
CppImports(root, file_path) ==
    LET
        \* str::trim_matches over the tokens of a node
        RECURSIVE trim_end_matches(_, _)
        trim_end_matches(tokens, chars) ==
            IF tokens # << >> /\ tokens[Len(tokens)] \in chars
            THEN trim_end_matches(SubSeq(tokens, 1, Len(tokens) - 1), chars)
            ELSE tokens
        RECURSIVE trim_start_in(_, _)
        trim_start_in(tokens, chars) ==
            IF tokens # << >> /\ Head(tokens) \in chars
            THEN trim_start_in(Tail(tokens), chars)
            ELSE tokens
        trim_matches(tokens, chars) == trim_end_matches(trim_start_in(tokens, chars), chars)
        \* The texts of the children, separated by one space.
        RECURSIVE Words(_)
        Words(nodes) ==
            CASE nodes = << >> -> ""
              [] Len(nodes) = 1 -> node_text(nodes[1])
              [] OTHER -> node_text(Head(nodes)) \o " " \o Words(Tail(nodes))
    IN
        LET Target(node) ==
                Concat(trim_matches(Tokens(or_else(find_child(node, "string_literal"),
                                                   find_child(node, "system_lib_string"))),
                                    {"\"", "<", ">"}))
            Using(node) ==
                Words(SelectSeq(node.children, LAMBDA c : c.kind \notin {"using", ";"}))
            includes == SelectSeq(find_all_nodes(root, "preproc_include"),
                                  LAMBDA n : Target(n) # "")
            usings == SelectSeq(find_all_nodes(root, "using_declaration"),
                                LAMBDA n : Using(n) # "")
        IN  [k \in DOMAIN includes |->
                [source_file |-> file_path, target |-> Target(includes[k]),
                 line |-> start_line(includes[k])]]
            \o [k \in DOMAIN usings |->
                [source_file |-> file_path, target |-> Using(usings[k]),
                 line |-> start_line(usings[k])]]

\* CppExtractor::extract_calls
CppCalls(root, symbols) ==
    LET
        CppCallee(call_node) ==
            LET func == child(call_node, 0) IN
            CASE func.kind = "identifier" -> node_text(func)
              [] func.kind = "field_expression" -> node_text(find_child(func, "field_identifier"))
              [] func.kind = "qualified_identifier" -> node_text(func)
              [] func.kind = "template_function" -> node_text(find_child(func, "identifier"))
              [] OTHER -> ""
    IN
        LET call_nodes == find_all_nodes(root, "call_expression")
        IN  CallsOf(symbols, call_nodes,
                    [k \in DOMAIN call_nodes |-> CppCallee(call_nodes[k])])

\* CppExtractor::extract_inheritance: the base_class_clause of classes, then
\* of structs.
CppInheritance(root, symbols) ==
    LET classes == find_all_nodes(root, "class_specifier")
                    \o find_all_nodes(root, "struct_specifier")
        Of(node) ==
            LET class_name == node_text(find_child(node, "type_identifier"))
                bases == SelectSeq(find_child(node, "base_class_clause").children,
                                   LAMBDA c : c.kind \in {"type_identifier",
                                                          "qualified_identifier"})
                symbol == find(symbols, {"Class", "Struct"}, class_name)
            IN  IF symbol = NoSymbol
                THEN << >>
                ELSE [b \in DOMAIN bases |->
                        [child_id |-> symbol[1].id, parent_name |-> node_text(bases[b])]]
    IN  Flatten([k \in DOMAIN classes |-> Of(classes[k])])

\* The tree ParserPool::parse returns for an item of a C++ text that starts
\* at the row.
CppTree(item, row) ==
    LET
        \* C++ sources.
        CppParams(r) == Inner("parameter_list", r, r, << Tok("(", r), Tok(")", r) >>)
        CppCallStatement(callee, r) ==
            \* g();
            Inner("expression_statement", r, r,
                  << Inner("call_expression", r, r,
                           << Leaf("identifier", callee, r),
                              Inner("argument_list", r, r, << Tok("(", r), Tok(")", r) >>) >>),
                     Tok(";", r) >>)
        CppBody(r, end_row, statements) ==
            Inner("compound_statement", r, end_row,
                  << Tok("{", r) >> \o statements \o << Tok("}", end_row) >>)
        CppInclude(r) ==
            \* #include "k.h"
            Inner("preproc_include", r, r,
                  << Tok("#include", r),
                     Inner("string_literal", r, r,
                           << Tok("\"", r), Leaf("string_content", "k.h", r), Tok("\"", r) >>) >>)
        CppFunctionF(r) ==
            \* void f() {
            \*   g();
            \* }
            Inner("function_definition", r, r + 2,
                  << Leaf("primitive_type", "void", r),
                     Inner("function_declarator", r, r,
                           << Leaf("identifier", "f", r), CppParams(r) >>),
                     CppBody(r, r + 2, << CppCallStatement("g", r + 1) >>) >>)
        CppMembers(r) ==
            \*   explicit
            \*   K();
            \*   ~K() { g(); }
            \*   void m() {}
            << Inner("declaration", r, r + 1,
                     << Inner("explicit_function_specifier", r, r, << Tok("explicit", r) >>),
                        Inner("function_declarator", r + 1, r + 1,
                              << Leaf("identifier", "K", r + 1), CppParams(r + 1) >>),
                        Tok(";", r + 1) >>),
               Inner("function_definition", r + 2, r + 2,
                     << Inner("function_declarator", r + 2, r + 2,
                              << Inner("destructor_name", r + 2, r + 2,
                                       << Tok("~", r + 2), Leaf("identifier", "K", r + 2) >>),
                                 CppParams(r + 2) >>),
                        CppBody(r + 2, r + 2, << CppCallStatement("g", r + 2) >>) >>),
               Inner("function_definition", r + 3, r + 3,
                     << Leaf("primitive_type", "void", r + 3),
                        Inner("function_declarator", r + 3, r + 3,
                              << Leaf("field_identifier", "m", r + 3), CppParams(r + 3) >>),
                        CppBody(r + 3, r + 3, << >>) >>) >>
        CppClassK(r) ==
            \* class K : public B {
            \* public:
            \*   (the members)
            \* };
            Inner("class_specifier", r, r + 6,
                  << Tok("class", r), Leaf("type_identifier", "K", r),
                     Inner("base_class_clause", r, r,
                           << Tok(":", r),
                              Inner("access_specifier", r, r, << Tok("public", r) >>),
                              Leaf("type_identifier", "B", r) >>),
                     Inner("field_declaration_list", r, r + 6,
                           << Tok("{", r),
                              Inner("access_specifier", r + 1, r + 1, << Tok("public", r + 1) >>),
                              Tok(":", r + 1) >>
                           \o CppMembers(r + 2)
                           \o << Tok("}", r + 6) >>) >>)
        CppStructP(r) ==
            \* struct P {
            \*   P();
            \* };
            Inner("struct_specifier", r, r + 2,
                  << Tok("struct", r), Leaf("type_identifier", "P", r),
                     Inner("field_declaration_list", r, r + 2,
                           << Tok("{", r),
                              Inner("declaration", r + 1, r + 1,
                                    << Inner("function_declarator", r + 1, r + 1,
                                             << Leaf("identifier", "P", r + 1), CppParams(r + 1) >>),
                                       Tok(";", r + 1) >>),
                              Tok("}", r + 2) >>) >>)
        CppEnumE(r) ==
            \* enum E { A };
            Inner("enum_specifier", r, r,
                  << Tok("enum", r), Leaf("type_identifier", "E", r),
                     Inner("enumerator_list", r, r,
                           << Tok("{", r), Leaf("identifier", "A", r), Tok("}", r) >>) >>)
    IN
        CASE item = "CppInclude" -> CppInclude(row)
          [] item = "CppFunctionF" -> CppFunctionF(row)
          [] item = "CppClassK" -> CppClassK(row)
          [] item = "CppStructP" -> CppStructP(row)
          [] item = "CppEnumE" -> CppEnumE(row)

\* --------------------------------------------------------- SymbolExtractor

\* SymbolExtractor::get_extractor and the four operations of the extractor
extract_symbols(language, root, file_path) ==
    CASE language = "Python" -> PythonSymbols(root, file_path)
      [] language = "Rust" -> RustSymbols(root, file_path)
      [] language = "JavaScript" -> JavaScriptSymbols(root, file_path)
      [] language = "TypeScript" -> TypeScriptSymbols(root, file_path)
      [] language = "Go" -> GoSymbols(root, file_path)
      [] language = "Cpp" -> CppSymbols(root, file_path)

extract_imports(language, root, file_path) ==
    CASE language = "Python" -> PythonImports(root, file_path)
      [] language = "Rust" -> RustImports(root, file_path)
      [] language \in {"JavaScript", "TypeScript"} -> JavaScriptImports(root, file_path)
      [] language = "Go" -> GoImports(root, file_path)
      [] language = "Cpp" -> CppImports(root, file_path)

extract_calls(language, root, symbols) ==
    CASE language = "Python" -> PythonCalls(root, symbols)
      [] language = "Rust" -> RustCalls(root, symbols)
      [] language \in {"JavaScript", "TypeScript"} -> JavaScriptCalls(root, symbols)
      [] language = "Go" -> GoCalls(root, symbols)
      [] language = "Cpp" -> CppCalls(root, symbols)

extract_inheritance(language, root, symbols) ==
    CASE language = "Python" -> PythonInheritance(root, symbols)
      [] language = "Rust" -> RustInheritance(root, symbols)
      [] language \in {"JavaScript", "TypeScript"} -> JavaScriptInheritance(root, symbols)
      [] language = "Go" -> GoInheritance(root, symbols)
      [] language = "Cpp" -> CppInheritance(root, symbols)

\* The items a source of the model is made of, per language.
ItemsOf(language) ==
    CASE language = "Python" ->
            {"PyImport", "PyFunctionG", "PyFunctionF", "PyClassB", "PyClassA"}
      [] language = "Rust" ->
            {"RsUse", "RsStructS", "RsEnumE", "RsTraitT", "RsFnF", "RsFnS", "RsImplS",
             "RsImplTForS"}
      [] language = "JavaScript" ->
            {"JsImport", "JsFunctionF", "JsArrowH", "JsArrowK", "JsClassC"}
      [] language = "TypeScript" ->
            {"JsFunctionF", "JsArrowH", "TsInterfaceI", "TsAliasA"}
      [] language = "Go" ->
            {"GoImport", "GoFunctionF", "GoMethodM", "GoMethodP", "GoStructS",
             "GoInterfaceI"}
      [] language = "Cpp" ->
            {"CppInclude", "CppFunctionF", "CppClassK", "CppStructP", "CppEnumE"}

\* The tree of an item of a text of the language, starting at the row.
Item(language, item, row) ==
    CASE language = "Python" -> PythonTree(item, row)
      [] language = "Rust" -> RustTree(item, row)
      [] language = "JavaScript" -> JavaScriptTree(item, row)
      [] language = "TypeScript" -> TypeScriptTree(item, row)
      [] language = "Go" -> GoTree(item, row)
      [] language = "Cpp" -> CppTree(item, row)

\* The items one after another, each starting on the row after the one before.
RECURSIVE Layout(_, _, _)
Layout(language, items, row) ==
    IF items = << >>
    THEN << >>
    ELSE << Item(language, Head(items), row) >>
            \o Layout(language, Tail(items), Item(language, Head(items), row).end_row + 1)

RootKind(language) ==
    CASE language = "Python" -> "module"
      [] language \in {"Rust", "Go"} -> "source_file"
      [] language \in {"JavaScript", "TypeScript"} -> "program"
      [] language = "Cpp" -> "translation_unit"

\* tree.root_node() of the parsed text of the items, which ends with a newline.
Tree(language, items) ==
    LET children == Layout(language, items, 0)
    IN  Inner(RootKind(language), 0, children[Len(children)].end_row + 1, children)

\* The sources of the model: sequences of up to MaxItems items.
Programs(language) ==
    UNION {[1 .. n -> ItemsOf(language)] : n \in 1 .. MaxItems}

\* source.iter().filter(|&&b| b == b'\n').count() + 1
line_count(root) == root.end_row + 1

\* SymbolExtractor::extract, with the text identified by its language and items.
extract(root, source, file_path, language) ==
    LET symbols == extract_symbols(language, root, file_path)
    IN  [file_path |-> file_path, language |-> language,
         content_hash |-> source, line_count |-> line_count(root),
         symbols |-> symbols,
         imports |-> extract_imports(language, root, file_path),
         calls |-> extract_calls(language, root, symbols),
         inheritance |-> extract_inheritance(language, root, symbols)]

\* The file contents the indexers read from disk.  "callee" stands for
\*   import os / class B: pass / def g(): pass
\* and "caller" for
\*   class A(B): / def m(self): / g()
Sources == {"callee", "caller"}

SourceItems(source) ==
    IF source = "callee"
    THEN << "PyImport", "PyClassB", "PyFunctionG" >>
    ELSE << "PyClassA" >>

NoFileSymbols == [file_path |-> None]

\* parse_file: ParserPool::parse, then SymbolExtractor::extract with the
\* path handed in.
\* What parse_file makes of every path and content of the model.
ParsedFiles ==
    [file_path \in Paths, source \in Sources |->
        extract(Tree("Python", SourceItems(source)), source, file_path, "Python")]

Extract(file_path, language, source) ==
    [ParsedFiles[file_path, source] EXCEPT !.language = language]

symbol_kind_to_label(kind) == kind

\* ------------------------------------------------------------ graph backend
\* A graph is [nodes, edges]: nodes maps a node (label and the value of the
\* property its MERGE pattern matches on) to its properties, edges is a set
\* of [type, src, dst].  Relationship properties never take part in a match
\* and are left out.

EmptyGraph == [nodes |-> << >>, edges |-> {}]

HasProp(g, n, prop, value) ==
    /\ prop \in DOMAIN g.nodes[n]
    /\ g.nodes[n][prop] = value

\* MERGE (n:Label {key: value}) SET n.p = ...
MergeNode(g, n, props) ==
    IF n \in DOMAIN g.nodes
    THEN [g EXCEPT !.nodes[n] =
            [k \in DOMAIN @ \cup DOMAIN props |->
                IF k \in DOMAIN props THEN props[k] ELSE @[k]]]
    ELSE [g EXCEPT !.nodes = (n :> props) @@ @]

\* MERGE (a)-[:type]->(b) for every matched pair
MergeEdges(g, type, srcs, dsts) ==
    [g EXCEPT !.edges = @ \cup {[type |-> type, src |-> s, dst |-> d] : s \in srcs, d \in dsts}]

\* DETACH DELETE
DetachDelete(g, del) ==
    [nodes |-> [n \in DOMAIN g.nodes \ del |-> g.nodes[n]],
     edges |-> {e \in g.edges : e.src \notin del /\ e.dst \notin del}]

FileNode(path) == <<"File", path>>

QueryFile(g, fs) ==
    MergeNode(g, FileNode(fs.file_path),
              [path |-> fs.file_path, language |-> fs.language,
               hash |-> fs.content_hash, line_count |-> fs.line_count])

SymbolNode(symbol) == <<symbol_kind_to_label(symbol.kind), symbol.id>>

QuerySymbol(g, symbol, file_path) ==
    LET s == SymbolNode(symbol)
        g1 == MergeNode(g, s, [id |-> symbol.id, name |-> symbol.name,
                               file_path |-> file_path,
                               start_line |-> symbol.start_line,
                               end_line |-> symbol.end_line])
    IN  MergeEdges(g1, "CONTAINS", {FileNode(file_path)} \cap DOMAIN g1.nodes, {s})

QueryParent(g, symbol) ==
    MergeEdges(g, "CONTAINS",
               {p \in DOMAIN g.nodes : HasProp(g, p, "id", symbol.parent_id)},
               {c \in DOMAIN g.nodes : HasProp(g, c, "id", symbol.id)})

QueryImport(g, import) ==
    LET m == <<"Module", import.target>>
        g1 == MergeNode(g, m, [name |-> import.target, is_external |-> TRUE])
    IN  MergeEdges(g1, "IMPORTS", {FileNode(import.source_file)} \cap DOMAIN g1.nodes, {m})

\* Mutant: the callee is MERGEd instead of MATCHed, so a call to a function
\* that is not in the graph creates it.
QueryCall_mergesCallee(g, call) ==
    LET f == <<"Function", call.callee_name>>
        g1 == IF \E n \in DOMAIN g.nodes : n[1] = "Function" /\ HasProp(g, n, "name", call.callee_name)
              THEN g
              ELSE MergeNode(g, f, [name |-> call.callee_name])
    IN  MergeEdges(g1, "CALLS",
                   {c \in DOMAIN g1.nodes : HasProp(g1, c, "id", call.caller_id)},
                   {n \in DOMAIN g1.nodes : n[1] = "Function" /\ HasProp(g1, n, "name", call.callee_name)})

QueryCall(g, call) ==
    MergeEdges(g, "CALLS",
               {c \in DOMAIN g.nodes : HasProp(g, c, "id", call.caller_id)},
               {f \in DOMAIN g.nodes : f[1] = "Function" /\ HasProp(g, f, "name", call.callee_name)})

ParentLabels == {"Class", "Struct", "Interface", "Trait"}

QueryInheritance(g, inheritance) ==
    MergeEdges(g, "INHERITS",
               {c \in DOMAIN g.nodes : HasProp(g, c, "id", inheritance.child_id)},
               {p \in DOMAIN g.nodes : p[1] \in ParentLabels
                                       /\ HasProp(g, p, "name", inheritance.parent_name)})

\* delete_file, first query: the File node and what it CONTAINS
DeletedByFile(g, path) ==
    ({FileNode(path)} \cap DOMAIN g.nodes)
    \cup {s \in DOMAIN g.nodes :
            [type |-> "CONTAINS", src |-> FileNode(path), dst |-> s] \in g.edges}

\* Mutant: the cleanup query does not compare the path.
DeletedByPath_anyPath(g, path) ==
    {s \in DOMAIN g.nodes : "file_path" \in DOMAIN g.nodes[s]}

\* delete_file, second query: every node whose file_path is the path
DeletedByPath(g, path) ==
    {s \in DOMAIN g.nodes : HasProp(g, s, "file_path", path)}

MetadataNode(key) == <<"Metadata", key>>

get_metadata(g, key) ==
    IF MetadataNode(key) \in DOMAIN g.nodes
    THEN g.nodes[MetadataNode(key)].value
    ELSE None

set_metadata(g, key, value) ==
    MergeNode(g, MetadataNode(key), [key |-> key, value |-> value])

\* The queries write_file issues, in order; each is awaited with `?`.
SymbolQueries(symbol, file_path) ==
    << [q |-> "symbol", arg |-> symbol, file_path |-> file_path] >>
    \o (IF symbol.parent_id # None
        THEN << [q |-> "parent", arg |-> symbol, file_path |-> file_path] >>
        ELSE << >>)

RECURSIVE AllSymbolQueries(_, _)
AllSymbolQueries(symbols, file_path) ==
    IF symbols = << >> THEN << >>
    ELSE SymbolQueries(Head(symbols), file_path) \o AllSymbolQueries(Tail(symbols), file_path)

Each(kind, items, file_path) ==
    [k \in 1..Len(items) |-> [q |-> kind, arg |-> items[k], file_path |-> file_path]]

WriteFileQueries(fs) ==
    << [q |-> "file", arg |-> fs, file_path |-> fs.file_path] >>
    \o AllSymbolQueries(fs.symbols, fs.file_path)
    \o Each("import", fs.imports, fs.file_path)
    \o Each("call", fs.calls, fs.file_path)
    \o Each("inheritance", fs.inheritance, fs.file_path)

DeleteFileQueries(path) ==
    << [q |-> "delete_file", arg |-> path, file_path |-> path],
       [q |-> "delete_path", arg |-> path, file_path |-> path] >>

\* The effect of one query that the backend executed.
Execute(g, query) ==
    CASE query.q = "file" -> QueryFile(g, query.arg)
      [] query.q = "symbol" -> QuerySymbol(g, query.arg, query.file_path)
      [] query.q = "parent" -> QueryParent(g, query.arg)
      [] query.q = "import" -> QueryImport(g, query.arg)
      [] query.q = "call" -> QueryCall(g, query.arg)
      [] query.q = "inheritance" -> QueryInheritance(g, query.arg)
      [] query.q = "delete_file" -> DetachDelete(g, DeletedByFile(g, query.arg))
      [] query.q = "delete_path" -> DetachDelete(g, DeletedByPath(g, query.arg))

RECURSIVE ExecuteAll(_, _)
ExecuteAll(g, qs) ==
    IF qs = << >> THEN g ELSE ExecuteAll(Execute(g, Head(qs)), Tail(qs))

\* --------------------------------------------------------- diff provider
\* The deltas git2 hands to the foreach callback of changes_since.

DeltaStatuses == {"Added", "Deleted", "Modified", "Renamed", "Copied", "Untracked", "Unmodified"}

Deltas ==
    {[status |-> st, new_path |-> p, old_path |-> p] :
        st \in DeltaStatuses \ {"Renamed", "Copied"}, p \in Paths}
    \cup {d \in [status : {"Renamed", "Copied"}, new_path : Paths, old_path : Paths] :
            d.new_path # d.old_path}

\* A diff names every path once.
DeltaPaths(d) == {d.new_path} \cup (IF d.status = "Renamed" THEN {d.old_path} ELSE {})

DeltaSeqs ==
    {ds \in UNION {[1..n -> Deltas] : n \in 0..MaxChanges} :
        \A j, k \in DOMAIN ds : j # k => DeltaPaths(ds[j]) \cap DeltaPaths(ds[k]) = {}}

ChangeKind(status) ==
    CASE status = "Added" -> "Added"
      [] status = "Deleted" -> "Deleted"
      [] status = "Modified" -> "Modified"
      [] status = "Renamed" -> "Renamed"
      [] status = "Copied" -> "Added"
      [] status = "Untracked" -> "Added"
      [] OTHER -> None

ChangedFile(delta) ==
    [path |-> IF delta.new_path # None THEN delta.new_path ELSE delta.old_path,
     old_path |-> IF ChangeKind(delta.status) = "Renamed" THEN delta.old_path ELSE None,
     kind |-> ChangeKind(delta.status)]

RECURSIVE changes_since(_)
changes_since(deltas) ==
    IF deltas = << >> THEN << >>
    ELSE (IF ChangeKind(Head(deltas).status) = None THEN << >>
          ELSE << ChangedFile(Head(deltas)) >>)
         \o changes_since(Tail(deltas))

\* Option<Vec<Language>>
NoLanguages == [some |-> FALSE, list |-> {}]
LanguageFilters == {NoLanguages, [some |-> TRUE, list |-> {"Rust"}]}

Supported(path, languages) ==
    /\ Detected[path] # None
    /\ languages.some => Detected[path] \in languages.list

filter_changes(cs, languages) ==
    LET keep(change) == Supported(change.path, languages) IN SelectSeq(cs, keep)

\* ---------------------------------------------------------------- paths

Roots == {"."}

join(root, path) == root \o "/" \o path

\* Path::strip_prefix(root).unwrap_or(path)
strip_prefix(path, root) ==
    IF \E rel \in Paths : path = join(root, rel)
    THEN CHOOSE rel \in Paths : path = join(root, rel)
    ELSE path

NoFile == [path |-> None, language |-> None]

\* What a crawl of the root can discover: regular files whose extension maps
\* to a language that passes the filter.
Crawlable(root, languages) ==
    {[path |-> join(root, rel), language |-> Detected[rel]] :
        rel \in {p \in Paths : Supported(p, languages)}}

\* ----------------------------------------------------------------- state

VARIABLES
    graph,          \* the graph in the backend
    repo,           \* whether Repository::discover finds a repository from the root
    head,           \* the commit HEAD points to (None: HEAD cannot be resolved)
    pc,             \* where the running indexer is
    mode,           \* "full" or "inc": the indexer that runs
    config,         \* its configuration
    since,          \* incremental: the since-reference
    changes,        \* incremental: the filtered changes
    i,              \* incremental: index of the change being processed
    after,          \* incremental: where delete_file returns to
    queries,        \* the queries the running write_file / delete_file still issues
    file_symbols,   \* the argument of the current or last write_file
    nodes_deleted,  \* nodes removed by the delete_file of the current change
    stats,          \* IndexingStats
    warned,         \* paths logged as "Failed to parse"
    result,         \* what run() returned
    unparsed,       \* full: files no worker has taken yet
    worker,         \* full: each pool thread's task
    chan,           \* full: FileSymbols sent and not yet received
    collected,      \* full: the collector's Vec<FileSymbols>
    failed_count,   \* full: the shared failure counter
    wi,             \* full: index of the file being written
    write_stats,    \* WriteStats
    runs,           \* runs started
    faults          \* backend failures so far

indexVars == <<graph, repo, head, pc, mode, config, since, changes, i, after, queries,
               file_symbols, nodes_deleted, stats, warned, result, unparsed, worker,
               chan, collected, failed_count, wi, write_stats, runs, faults>>

\* ------------------------------------------------------ the graph handle
\* GraphSchema { graph: Arc<Mutex<AsyncGraph>> }: the tasks that share one
\* handle, each inside one of its operations.
VARIABLES
    mutex,          \* the task holding the guard of the Mutex (0: unlocked)
    op              \* per task: the operation it is in and how far it is

lockVars == <<mutex, op>>

\* ------------------------------------------------------- the parser pool
\* thread_local! PARSERS, per pool thread.
VARIABLES
    PARSERS,        \* per thread: the HashMap from language to its parser
    constructed,    \* every parser Parser::new() has returned
    uses,           \* every parser.parse call: the parser, the thread, the language
    parsed,         \* per thread: what its last parse returned
    parses          \* per thread: the number of its parse calls

poolVars == <<PARSERS, constructed, uses, parsed, parses>>

\* ------------------------------------------------------------ the crawler
\* Crawler::crawl over a directory tree.
VARIABLES
    disk,           \* the regular files under the root, each a sequence of names
    vcs_ignored,    \* the directory names the VCS ignore rules cover
    crawler,        \* CrawlerConfig
    cpc,            \* where crawl() is
    ci,             \* index of the ignore pattern the loop is at
    overrides,      \* the override matcher of the WalkBuilder
    pending,        \* the directories the walker has still to read
    descended,      \* the directories the walker has read
    found           \* the SourceFiles sent so far

crawlVars == <<disk, vcs_ignored, crawler, cpc, ci, overrides, pending, descended, found>>

\* SymbolExtractor::extract on one parsed file.
VARIABLES
    xpc,            \* where extract() is
    input,          \* its arguments: the language, the path and the parsed text
    output          \* the parts of the FileSymbols made so far

extractVars == <<xpc, input, output>>

\* The text of the queries the core sends to the backend.
VARIABLES
    built           \* the last query built: its kind and its string values, each
                    \* with the text that stands for it between the quotes

queryVars == <<built>>

\* The path keys of one tree under both indexers.
VARIABLES
    key_root,       \* config.root, inside the repository whose work tree is "."
    key_files,      \* the files under the root, by their path from the root
    key_pc,         \* idle, then the full index, then the changes of an update
    keys,           \* the paths of the File nodes in the graph
    key_change      \* the change the update is at

keyVars == <<key_root, key_files, key_pc, keys, key_change>>

compVars == <<lockVars, poolVars, crawlVars, extractVars, queryVars, keyVars>>

vars == <<indexVars, compVars>>

Threads == 1..NumThreads

LAST_INDEXED_COMMIT == "last_indexed_commit"

NoConfig == [root |-> ".", languages |-> NoLanguages, clear_existing |-> FALSE,
             since |-> None, dry_run |-> FALSE]
NoStats == [files_discovered |-> 0, files_parsed |-> 0, files_failed |-> 0]
NoWriteStats == [files_written |-> 0, symbols_written |-> 0,
                 imports_written |-> 0, calls_written |-> 0]
Running == [returned |-> FALSE, ok |-> FALSE, err |-> None]
Ok == [returned |-> TRUE, ok |-> TRUE, err |-> None]
Err(e) == [returned |-> TRUE, ok |-> FALSE, err |-> e]

IndexInit ==
    /\ graph = EmptyGraph
    /\ repo \in BOOLEAN
    /\ head \in (IF repo THEN {None, "c1"} ELSE {None})
    /\ pc = "idle"
    /\ mode = None
    /\ config = NoConfig
    /\ since = None
    /\ changes = << >>
    /\ i = 0
    /\ after = None
    /\ queries = << >>
    /\ file_symbols = NoFileSymbols
    /\ nodes_deleted = 0
    /\ stats = NoStats
    /\ warned = {}
    /\ result = Running
    /\ unparsed = {}
    /\ worker = [t \in Threads |-> [st |-> "exit", file |-> NoFile]]
    /\ chan = << >>
    /\ collected = << >>
    /\ failed_count = 0
    /\ wi = 0
    /\ write_stats = NoWriteStats
    /\ runs = 0
    /\ faults = 0

Callers == 1..NumCallers

NoOp == [name |-> None, left |-> 0, st |-> "idle"]

LockInit ==
    /\ mutex = 0
    /\ op = [t \in Callers |-> NoOp]

Languages == {"Python", "Rust", "JavaScript", "TypeScript", "Go", "Cpp"}

PoolInit ==
    /\ PARSERS = [t \in Threads |-> << >>]
    /\ constructed = {}
    /\ uses = {}
    /\ parsed = [t \in Threads |-> None]
    /\ parses = [t \in Threads |-> 0]

\* CrawlerConfig::default().ignore_patterns
ignore_patterns ==
    << "node_modules", "target", ".git", "vendor", "dist", "build", "__pycache__",
       ".venv", "venv" >>

NoCrawler == [languages |-> NoLanguages, git_ignore |-> TRUE, ignore_patterns |-> << >>]

CrawlInit ==
    /\ disk = {}
    /\ vcs_ignored = {}
    /\ crawler = NoCrawler
    /\ cpc = "idle"
    /\ ci = 0
    /\ overrides = {}
    /\ pending = {}
    /\ descended = {}
    /\ found = {}

NoInput == [language |-> None]

NoOutput == [file_path |-> None]

ExtractInit ==
    /\ xpc = "idle"
    /\ input = NoInput
    /\ output = NoOutput

NoQuery == [kind |-> None, v |-> "", language |-> None, embedded |-> << >>]

QueryInit == built = NoQuery

NoChange == [kind |-> None, file |-> None, path |-> None]

KeyInit ==
    /\ key_root = "."
    /\ key_files = {}
    /\ key_pc = "idle"
    /\ keys = {}
    /\ key_change = NoChange

CompInit == LockInit /\ PoolInit /\ CrawlInit /\ ExtractInit /\ QueryInit /\ KeyInit

Init == IndexInit /\ CompInit

\* A run starts with fresh locals.
Start(m, cfg, first) ==
    /\ pc \in {"idle", "done"}
    /\ runs < MaxRuns
    /\ runs' = runs + 1
    /\ mode' = m
    /\ config' = cfg
    /\ pc' = first
    /\ since' = None
    /\ changes' = << >>
    /\ i' = 0
    /\ after' = None
    /\ queries' = << >>
    /\ file_symbols' = NoFileSymbols
    /\ nodes_deleted' = 0
    /\ stats' = NoStats
    /\ warned' = {}
    /\ result' = Running
    /\ unparsed' = {}
    /\ worker' = [t \in Threads |-> [st |-> "exit", file |-> NoFile]]
    /\ chan' = << >>
    /\ collected' = << >>
    /\ failed_count' = 0
    /\ wi' = 0
    /\ write_stats' = NoWriteStats
    /\ UNCHANGED <<graph, repo, head, faults>>
    /\ UNCHANGED compVars

\* run() returns.
Return(r) ==
    /\ pc' = "done"
    /\ result' = r

\* The user commits between two runs.
EnvCommit ==
    /\ pc \in {"idle", "done"}
    /\ runs < MaxRuns
    /\ repo
    /\ head # "c2"
    /\ head' = IF head = None THEN "c1" ELSE "c2"
    /\ UNCHANGED <<graph, repo, pc, mode, config, since, changes, i, after, queries,
                   file_symbols, nodes_deleted, stats, warned, result, unparsed, worker,
                   chan, collected, failed_count, wi, write_stats, runs, faults>>
    /\ UNCHANGED compVars

\* The backend fails the awaited call.
Fault ==
    /\ faults < MaxFaults
    /\ faults' = faults + 1

envVars == <<repo, head, faults>>
startVars == <<mode, config, runs>>
fullVars == <<unparsed, worker, chan, collected, failed_count, wi, write_stats>>
incVars == <<since, changes, i, after, nodes_deleted>>

\* -------------------------------------------------------- the full indexer
\* FullIndexer::run

FullStart ==
    \E clear \in BOOLEAN, langs \in LanguageFilters, root \in Roots :
        Start("full", [root |-> root, languages |-> langs, clear_existing |-> clear,
                       since |-> None, dry_run |-> FALSE], "f_connect")

FullConnectOk ==
    /\ pc = "f_connect"
    /\ pc' = "f_init"
    /\ UNCHANGED <<graph, envVars, startVars, fullVars, incVars, queries, file_symbols,
                   stats, warned, result>>
    /\ UNCHANGED compVars

FullConnectErr ==
    /\ Fault
    /\ pc = "f_connect"
    /\ Return(Err("connect"))
    /\ UNCHANGED <<graph, repo, head, startVars, fullVars, incVars, queries, file_symbols,
                   stats, warned>>
    /\ UNCHANGED compVars

AfterInitialize(cfg) == IF cfg.clear_existing THEN "f_clear" ELSE "f_crawl"

\* GraphSchema::initialize: the result of every index query is dropped.
FullInitialize ==
    /\ pc = "f_init"
    /\ pc' = AfterInitialize(config)
    /\ UNCHANGED <<graph, envVars, startVars, fullVars, incVars, queries, file_symbols,
                   stats, warned, result>>
    /\ UNCHANGED compVars

\* GraphSchema::initialize when an index query fails for a reason other than
\* an index that exists already: `let _ =` drops that result as well, and
\* initialize returns Ok(()).
FullInitializeErr ==
    /\ Fault
    /\ pc = "f_init"
    /\ pc' = AfterInitialize(config)
    /\ UNCHANGED <<graph, repo, head, startVars, fullVars, incVars, queries, file_symbols,
                   stats, warned, result>>
    /\ UNCHANGED compVars

\* GraphSchema::clear: MATCH (n) DETACH DELETE n
FullClearOk ==
    /\ pc = "f_clear"
    /\ graph' = EmptyGraph
    /\ pc' = "f_crawl"
    /\ UNCHANGED <<envVars, startVars, fullVars, incVars, queries, file_symbols,
                   stats, warned, result>>
    /\ UNCHANGED compVars

FullClearErr ==
    /\ Fault
    /\ pc = "f_clear"
    /\ Return(Err("clear_query"))
    /\ UNCHANGED <<graph, repo, head, startVars, fullVars, incVars, queries, file_symbols,
                   stats, warned>>
    /\ UNCHANGED compVars

\* Crawler::crawl, then the parse tasks are spawned on the pool.
FullCrawl ==
    /\ pc = "f_crawl"
    /\ \E files \in SUBSET Crawlable(config.root, config.languages) :
        /\ unparsed' = files
        /\ stats' = [stats EXCEPT !.files_discovered = Cardinality(files)]
    /\ worker' = [t \in Threads |-> [st |-> "idle", file |-> NoFile]]
    /\ pc' = "f_collect"
    /\ UNCHANGED <<graph, envVars, startVars, chan, collected, failed_count, wi,
                   write_stats, incVars, queries, file_symbols, warned, result>>
    /\ UNCHANGED compVars

workerFrame == <<graph, envVars, startVars, pc, collected, wi, write_stats, incVars,
                 queries, file_symbols, stats, result>>

\* A pool thread takes the next file of the parallel iterator.
WorkerTake(t) ==
    /\ pc = "f_collect"
    /\ worker[t].st = "idle"
    /\ \E f \in unparsed :
        /\ worker' = [worker EXCEPT ![t] = [st |-> "busy", file |-> f]]
        /\ unparsed' = unparsed \ {f}
    /\ UNCHANGED <<workerFrame, chan, failed_count, warned>>
    /\ UNCHANGED compVars

\* Mutant: the send waits until the collector has emptied the channel.
WorkerParseOk_bounded(t) ==
    /\ pc = "f_collect"
    /\ worker[t].st = "busy"
    /\ chan = << >>
    /\ \E source \in Sources :
        chan' = Append(chan, Extract(strip_prefix(worker[t].file.path, config.root),
                                     worker[t].file.language, source))
    /\ worker' = [worker EXCEPT ![t] = [st |-> "idle", file |-> NoFile]]
    /\ UNCHANGED <<workerFrame, unparsed, failed_count, warned>>
    /\ UNCHANGED compVars

\* parse_file returned Ok: the record is sent.
WorkerParseOk(t) ==
    /\ pc = "f_collect"
    /\ worker[t].st = "busy"
    /\ \E source \in Sources :
        chan' = Append(chan, Extract(strip_prefix(worker[t].file.path, config.root),
                                     worker[t].file.language, source))
    /\ worker' = [worker EXCEPT ![t] = [st |-> "idle", file |-> NoFile]]
    /\ UNCHANGED <<workerFrame, unparsed, failed_count, warned>>
    /\ UNCHANGED compVars

\* Mutant: the failure is logged, not counted.
WorkerParseErr_uncounted(t) ==
    /\ pc = "f_collect"
    /\ worker[t].st = "busy"
    /\ warned' = warned \cup {strip_prefix(worker[t].file.path, config.root)}
    /\ worker' = [worker EXCEPT ![t] = [st |-> "idle", file |-> NoFile]]
    /\ UNCHANGED <<workerFrame, unparsed, chan, failed_count>>
    /\ UNCHANGED compVars

\* Mutant: the thread that logged a failure keeps its sender.
WorkerParseErr_keepsSender(t) ==
    /\ pc = "f_collect"
    /\ worker[t].st = "busy"
    /\ warned' = warned \cup {strip_prefix(worker[t].file.path, config.root)}
    /\ failed_count' = failed_count + 1
    /\ worker' = [worker EXCEPT ![t] = [st |-> "failed", file |-> NoFile]]
    /\ UNCHANGED <<workerFrame, unparsed, chan>>
    /\ UNCHANGED compVars

\* parse_file returned Err (read, parse or extract): logged and counted.
WorkerParseErr(t) ==
    /\ pc = "f_collect"
    /\ worker[t].st = "busy"
    /\ warned' = warned \cup {strip_prefix(worker[t].file.path, config.root)}
    /\ failed_count' = failed_count + 1
    /\ worker' = [worker EXCEPT ![t] = [st |-> "idle", file |-> NoFile]]
    /\ UNCHANGED <<workerFrame, unparsed, chan>>
    /\ UNCHANGED compVars

\* Nothing is left to take: the thread's clone of the sender is dropped.
WorkerExit(t) ==
    /\ pc = "f_collect"
    /\ worker[t].st = "idle"
    /\ unparsed = {}
    /\ worker' = [worker EXCEPT ![t] = [st |-> "exit", file |-> NoFile]]
    /\ UNCHANGED <<workerFrame, unparsed, chan, failed_count, warned>>
    /\ UNCHANGED compVars

\* for symbols in rx { file_symbols.push(symbols) }
FullRecv ==
    /\ pc = "f_collect"
    /\ chan # << >>
    /\ collected' = Append(collected, Head(chan))
    /\ chan' = Tail(chan)
    /\ UNCHANGED <<graph, envVars, startVars, pc, unparsed, worker, failed_count, wi,
                   write_stats, incVars, queries, file_symbols, stats, warned, result>>
    /\ UNCHANGED compVars

\* Mutant: the collector stops as soon as the channel is empty.
Disconnected_whenEmpty(ch, w) == ch = << >>

\* The receiver's iterator ends: the channel is empty and every sender is dropped.
Disconnected(ch, w) == ch = << >> /\ \A t \in Threads : w[t].st = "exit"

\* Mutant: the commit is recorded as soon as parsing is over.
FullCollectEnd_recordsHead ==
    /\ pc = "f_collect"
    /\ Disconnected(chan, worker)
    /\ stats' = [stats EXCEPT !.files_failed = failed_count,
                              !.files_parsed = Len(collected)]
    /\ wi' = 1
    /\ pc' = "f_write"
    /\ graph' = IF repo /\ head # None
                THEN set_metadata(graph, LAST_INDEXED_COMMIT, head)
                ELSE graph
    /\ UNCHANGED <<envVars, startVars, unparsed, worker, chan, collected,
                   failed_count, write_stats, incVars, queries, file_symbols, warned,
                   result>>
    /\ UNCHANGED compVars

FullCollectEnd ==
    /\ pc = "f_collect"
    /\ Disconnected(chan, worker)
    /\ stats' = [stats EXCEPT !.files_failed = failed_count,
                              !.files_parsed = Len(collected)]
    /\ wi' = 1
    /\ pc' = "f_write"
    /\ UNCHANGED <<graph, envVars, startVars, unparsed, worker, chan, collected,
                   failed_count, write_stats, incVars, queries, file_symbols, warned,
                   result>>
    /\ UNCHANGED compVars

\* GraphWriter::write_files / write_file_batch: the next file, or the end.
FullWriteNext ==
    /\ pc = "f_write"
    /\ IF wi <= Len(collected)
       THEN /\ file_symbols' = collected[wi]
            /\ queries' = WriteFileQueries(collected[wi])
            /\ pc' = "write"
       ELSE /\ pc' = "f_head"
            /\ UNCHANGED <<file_symbols, queries>>
    /\ UNCHANGED <<graph, envVars, startVars, fullVars, incVars, stats, warned, result>>
    /\ UNCHANGED compVars

\* Store the current commit if discovery finds a repository and HEAD resolves.
FullRecordHeadSkip ==
    /\ pc = "f_head"
    /\ ~repo \/ head = None
    /\ Return(Ok)
    /\ UNCHANGED <<graph, envVars, startVars, fullVars, incVars, queries, file_symbols,
                   stats, warned>>
    /\ UNCHANGED compVars

FullRecordHeadOk ==
    /\ pc = "f_head"
    /\ repo /\ head # None
    /\ graph' = set_metadata(graph, LAST_INDEXED_COMMIT, head)
    /\ Return(Ok)
    /\ UNCHANGED <<envVars, startVars, fullVars, incVars, queries, file_symbols,
                   stats, warned>>
    /\ UNCHANGED compVars

FullRecordHeadErr ==
    /\ Fault
    /\ pc = "f_head"
    /\ repo /\ head # None
    /\ Return(Err("set_metadata"))
    /\ UNCHANGED <<graph, repo, head, startVars, fullVars, incVars, queries, file_symbols,
                   stats, warned>>
    /\ UNCHANGED compVars

\* ------------------------------------------------------------- write_file
\* GraphWriter::write_file, one awaited query per step, for both callers.

\* Mutant: a failed file is logged and not counted.
FileFailed_notCounted(st) == st

FileFailed(st) == [st EXCEPT !.files_failed = @ + 1]
FileParsed(st) == [st EXCEPT !.files_parsed = @ + 1]

Written(ws, fs) ==
    [files_written |-> ws.files_written + 1,
     symbols_written |-> ws.symbols_written + Len(fs.symbols),
     imports_written |-> ws.imports_written + Len(fs.imports),
     calls_written |-> ws.calls_written + Len(fs.calls)]

WriteFileQueryOk ==
    /\ pc = "write"
    /\ queries # << >>
    /\ graph' = Execute(graph, Head(queries))
    /\ queries' = Tail(queries)
    /\ IF Tail(queries) # << >>
       THEN UNCHANGED <<pc, wi, write_stats, stats>>
       ELSE IF mode = "full"
            THEN /\ write_stats' = Written(write_stats, file_symbols)
                 /\ wi' = wi + 1
                 /\ pc' = "f_write"
                 /\ UNCHANGED stats
            ELSE /\ stats' = FileParsed(stats)
                 /\ pc' = "i_next"
                 /\ UNCHANGED <<wi, write_stats>>
    /\ UNCHANGED <<envVars, startVars, unparsed, worker, chan, collected, failed_count,
                   incVars, file_symbols, warned, result>>
    /\ UNCHANGED compVars

\* The query fails: write_file returns the error with what was written left
\* in the graph.  write_files passes it on; the incremental loop counts it.
WriteFileQueryErr ==
    /\ Fault
    /\ pc = "write"
    /\ queries # << >>
    /\ IF mode = "full"
       THEN /\ Return(Err("write_query"))
            /\ UNCHANGED <<stats, warned>>
       ELSE /\ stats' = FileFailed(stats)
            /\ warned' = warned \cup {file_symbols.file_path}
            /\ pc' = "i_next"
            /\ UNCHANGED result
    /\ UNCHANGED <<graph, repo, head, startVars, fullVars, incVars, queries, file_symbols>>
    /\ UNCHANGED compVars

\* ------------------------------------------------- the incremental indexer
\* IncrementalIndexer::run

SinceArgs == {None, "c1"}

IncStart ==
    \E ref \in SinceArgs, dry \in BOOLEAN, root \in Roots :
        Start("inc", [root |-> root, languages |-> NoLanguages, clear_existing |-> FALSE,
                      since |-> ref, dry_run |-> dry], "i_open")

incFrame == <<graph, envVars, startVars, fullVars, queries, file_symbols, warned>>

\* GitDiff::open
IncOpenOk ==
    /\ pc = "i_open"
    /\ repo
    /\ pc' = "i_connect"
    /\ UNCHANGED <<incFrame, incVars, stats, result>>
    /\ UNCHANGED compVars

IncOpenErr ==
    /\ pc = "i_open"
    /\ ~repo
    /\ Return(Err("not_a_repository"))
    /\ UNCHANGED <<incFrame, incVars, stats>>
    /\ UNCHANGED compVars

IncConnectOk ==
    /\ pc = "i_connect"
    /\ pc' = "i_since"
    /\ UNCHANGED <<incFrame, incVars, stats, result>>
    /\ UNCHANGED compVars

IncConnectErr ==
    /\ Fault
    /\ pc = "i_connect"
    /\ Return(Err("connect"))
    /\ UNCHANGED <<graph, repo, head, startVars, fullVars, queries, file_symbols, warned, incVars, stats>>
    /\ UNCHANGED compVars

\* Mutant: the stored commit wins over the argument.
SinceReference_storedFirst(cfg, stored) == IF stored # None THEN stored ELSE cfg.since

\* The reference to compare against: the argument, else the stored commit.
SinceReference(cfg, stored) == IF cfg.since # None THEN cfg.since ELSE stored

IncSinceOk ==
    /\ pc = "i_since"
    /\ SinceReference(config, get_metadata(graph, LAST_INDEXED_COMMIT)) # None
    /\ since' = SinceReference(config, get_metadata(graph, LAST_INDEXED_COMMIT))
    /\ pc' = "i_diff"
    /\ UNCHANGED <<incFrame, changes, i, after, nodes_deleted, stats, result>>
    /\ UNCHANGED compVars

\* No argument and the metadata query fails.
IncSinceQueryErr ==
    /\ Fault
    /\ pc = "i_since"
    /\ config.since = None
    /\ Return(Err("metadata_query"))
    /\ UNCHANGED <<graph, repo, head, startVars, fullVars, queries, file_symbols, warned, incVars, stats>>
    /\ UNCHANGED compVars

\* "No previous index found. Run full index first."
IncSinceMissing ==
    /\ pc = "i_since"
    /\ SinceReference(config, get_metadata(graph, LAST_INDEXED_COMMIT)) = None
    /\ Return(Err("no_previous_index"))
    /\ UNCHANGED <<incFrame, incVars, stats>>
    /\ UNCHANGED compVars

IncDiffErr ==
    /\ pc = "i_diff"
    /\ Return(Err("diff"))
    /\ UNCHANGED <<incFrame, incVars, stats>>
    /\ UNCHANGED compVars

\* Mutant: the dry-run flag is not looked at.
DryRunReturns_never(cfg) == FALSE

DryRunReturns(cfg) == cfg.dry_run

\* changes_since, filter_changes, and the dry-run return.
IncDiffOk ==
    /\ pc = "i_diff"
    /\ \E deltas \in DeltaSeqs :
        LET cs == filter_changes(changes_since(deltas), config.languages) IN
        /\ changes' = cs
        /\ stats' = [stats EXCEPT !.files_discovered = Len(cs)]
    /\ IF DryRunReturns(config)
       THEN Return(Ok) /\ UNCHANGED i
       ELSE pc' = "i_next" /\ UNCHANGED <<i, result>>
    /\ UNCHANGED <<incFrame, since, after, nodes_deleted>>
    /\ UNCHANGED compVars

\* Mutant: a modified file is upserted without deleting its old data.
DeleteFirst_notForModified(change) ==
    CASE change.kind = "Deleted" -> change.path
      [] change.kind = "Renamed" -> change.old_path
      [] OTHER -> None

\* Mutant: a rename deletes the new path instead of the old one.
DeleteFirst_newPathOnRename(change) ==
    CASE change.kind = "Deleted" -> change.path
      [] change.kind = "Renamed" -> change.path
      [] change.kind = "Modified" -> change.path
      [] OTHER -> None

\* The path the change makes delete_file run on before anything is parsed.
DeleteFirst(change) ==
    CASE change.kind = "Deleted" -> change.path
      [] change.kind = "Renamed" -> change.old_path
      [] change.kind = "Modified" -> change.path
      [] OTHER -> None

\* for change in changes: the loop moves to the next change and matches on
\* its kind, or ends.
IncNext ==
    /\ pc = "i_next"
    /\ i' = i + 1
    /\ IF i + 1 > Len(changes)
       THEN /\ pc' = "i_head"
            /\ UNCHANGED <<queries, after, file_symbols, nodes_deleted>>
       ELSE /\ file_symbols' = NoFileSymbols
            /\ nodes_deleted' = 0
            /\ IF DeleteFirst(changes[i + 1]) # None
               THEN /\ queries' = DeleteFileQueries(DeleteFirst(changes[i + 1]))
                    /\ after' = IF changes[i + 1].kind = "Deleted" THEN "i_next" ELSE "i_parse"
                    /\ pc' = "delete"
               ELSE /\ pc' = "i_parse"
                    /\ UNCHANGED <<queries, after>>
    /\ UNCHANGED <<graph, envVars, startVars, fullVars, since, changes, stats,
                   warned, result>>
    /\ UNCHANGED compVars

\* GraphSchema::delete_file, one awaited query per step.
DeleteQueryOk ==
    /\ pc = "delete"
    /\ queries # << >>
    /\ graph' = Execute(graph, Head(queries))
    /\ nodes_deleted' = nodes_deleted + Cardinality(DOMAIN graph.nodes)
                                      - Cardinality(DOMAIN graph'.nodes)
    /\ queries' = Tail(queries)
    /\ pc' = IF Tail(queries) = << >> THEN after ELSE "delete"
    /\ UNCHANGED <<envVars, startVars, fullVars, since, changes, i, after, file_symbols,
                   stats, warned, result>>
    /\ UNCHANGED compVars

DeleteQueryErr ==
    /\ Fault
    /\ pc = "delete"
    /\ queries # << >>
    /\ Return(Err("delete_query"))
    /\ UNCHANGED <<graph, repo, head, startVars, fullVars, queries, file_symbols, warned, incVars, stats>>
    /\ UNCHANGED compVars

\* parse_and_write up to the extraction: the file is read, parsed, extracted.
IncParseOk ==
    /\ pc = "i_parse"
    /\ Detected[changes[i].path] # None
    /\ \E source \in Sources :
        LET fs == Extract(changes[i].path, Detected[changes[i].path], source)
        IN  /\ file_symbols' = fs
            /\ queries' = WriteFileQueries(fs)
    /\ pc' = "write"
    /\ UNCHANGED <<graph, envVars, startVars, fullVars, incVars, stats, warned, result>>
    /\ UNCHANGED compVars

\* Reading, parsing or extracting fails: logged, counted, the loop goes on.
IncParseErr ==
    /\ pc = "i_parse"
    /\ stats' = FileFailed(stats)
    /\ warned' = warned \cup {changes[i].path}
    /\ pc' = "i_next"
    /\ UNCHANGED <<graph, envVars, startVars, fullVars, incVars, queries, file_symbols,
                   result>>
    /\ UNCHANGED compVars

\* Update last indexed commit
IncRecordHeadOk ==
    /\ pc = "i_head"
    /\ head # None
    /\ graph' = set_metadata(graph, LAST_INDEXED_COMMIT, head)
    /\ Return(Ok)
    /\ UNCHANGED <<envVars, startVars, fullVars, incVars, queries, file_symbols,
                   stats, warned>>
    /\ UNCHANGED compVars

IncHeadCommitErr ==
    /\ pc = "i_head"
    /\ head = None
    /\ Return(Err("head_commit"))
    /\ UNCHANGED <<incFrame, incVars, stats>>
    /\ UNCHANGED compVars

IncRecordHeadErr ==
    /\ Fault
    /\ pc = "i_head"
    /\ head # None
    /\ Return(Err("set_metadata"))
    /\ UNCHANGED <<graph, repo, head, startVars, fullVars, queries, file_symbols, warned, incVars, stats>>
    /\ UNCHANGED compVars

\* ------------------------------------------------------------ specification

Next ==
    \/ EnvCommit
    \/ FullStart
    \/ FullConnectOk
    \/ FullConnectErr
    \/ FullInitialize
    \/ FullInitializeErr
    \/ FullClearOk
    \/ FullClearErr
    \/ FullCrawl
    \/ \E t \in Threads : WorkerTake(t)
    \/ \E t \in Threads : WorkerParseOk(t)
    \/ \E t \in Threads : WorkerParseErr(t)
    \/ \E t \in Threads : WorkerExit(t)
    \/ FullRecv
    \/ FullCollectEnd
    \/ FullWriteNext
    \/ FullRecordHeadSkip
    \/ FullRecordHeadOk
    \/ FullRecordHeadErr
    \/ WriteFileQueryOk
    \/ WriteFileQueryErr
    \/ IncStart
    \/ IncOpenOk
    \/ IncOpenErr
    \/ IncConnectOk
    \/ IncConnectErr
    \/ IncSinceOk
    \/ IncSinceQueryErr
    \/ IncSinceMissing
    \/ IncDiffErr
    \/ IncDiffOk
    \/ DeleteQueryOk
    \/ DeleteQueryErr
    \/ IncParseOk
    \/ IncParseErr
    \/ IncNext
    \/ IncRecordHeadOk
    \/ IncHeadCommitErr
    \/ IncRecordHeadErr

Spec == Init /\ [][Next]_vars

\* ------------------------------------------------------ the graph handle
\* The operations of one shared GraphSchema (and GraphWriter::write_file,
\* which locks the same Mutex through GraphSchema::graph), one awaited
\* query per step.

\* initialize: the CREATE INDEX queries.
index_queries ==
    << "File.path", "Function.name", "Function.file_path", "Class.name",
       "Class.file_path", "Struct.name", "Struct.file_path", "Interface.name",
       "Module.name" >>

\* stats: the count queries.
count_queries == << "File", "Function", "Class", "Struct", "CALLS", "IMPORTS" >>

Operations ==
    {"initialize", "clear", "delete_file", "stats", "get_metadata", "set_metadata",
     "query", "write_file"}

\* The operations whose query errors are dropped (let _ = ..., Err(_) => 0).
IgnoresErrors == {"initialize", "stats"}

\* The number of queries an operation issues when none fails.
QueriesOf(name) ==
    CASE name = "initialize" -> Len(index_queries)
      [] name = "stats" -> Len(count_queries)
      [] name = "delete_file" -> Len(DeleteFileQueries("a.py"))
      [] name = "write_file" -> Len(WriteFileQueries(Extract("a.py", "Python", "caller")))
      [] OTHER -> 1

\* A task calls an operation of the handle: its first await is lock().
Call(t) ==
    /\ op[t].st = "idle"
    /\ \E name \in Operations :
        op' = [op EXCEPT ![t] = [name |-> name, left |-> QueriesOf(name), st |-> "locking"]]
    /\ UNCHANGED <<mutex, indexVars, poolVars, crawlVars, extractVars, queryVars, keyVars>>

\* self.graph.lock().await returns the guard.
Acquire(t) ==
    /\ op[t].st = "locking"
    /\ mutex = 0
    /\ mutex' = t
    /\ op' = [op EXCEPT ![t].st = "locked"]
    /\ UNCHANGED <<indexVars, poolVars, crawlVars, extractVars, queryVars, keyVars>>

\* graph.query(..).execute() is awaited.
Issue(t) ==
    /\ op[t].st = "locked"
    /\ op[t].left > 0
    /\ op' = [op EXCEPT ![t].st = "query"]
    /\ UNCHANGED <<mutex, indexVars, poolVars, crawlVars, extractVars, queryVars, keyVars>>

\* Mutant: the guard is dropped after each query and taken again for the next.
QueryReturns_unlocks(t) ==
    /\ op[t].st = "query"
    /\ op' = [op EXCEPT ![t].left = @ - 1,
                        ![t].st = IF op[t].left > 1 THEN "locking" ELSE "locked"]
    /\ mutex' = IF op[t].left > 1 THEN 0 ELSE mutex
    /\ UNCHANGED <<indexVars, poolVars, crawlVars, extractVars, queryVars, keyVars>>

\* The query returned Ok, or an error that the operation drops.
QueryReturns(t) ==
    /\ op[t].st = "query"
    /\ op' = [op EXCEPT ![t].left = @ - 1, ![t].st = "locked"]
    /\ UNCHANGED <<mutex, indexVars, poolVars, crawlVars, extractVars, queryVars, keyVars>>

\* The query returned Err and `?` returns it: the guard is dropped.
QueryFails(t) ==
    /\ op[t].st = "query"
    /\ op[t].name \notin IgnoresErrors
    /\ op' = [op EXCEPT ![t] = NoOp]
    /\ mutex' = 0
    /\ UNCHANGED <<indexVars, poolVars, crawlVars, extractVars, queryVars, keyVars>>

\* The operation returns after its last query: the guard is dropped.
Finish(t) ==
    /\ op[t].st = "locked"
    /\ op[t].left = 0
    /\ op' = [op EXCEPT ![t] = NoOp]
    /\ mutex' = 0
    /\ UNCHANGED <<indexVars, poolVars, crawlVars, extractVars, queryVars, keyVars>>

LockNext ==
    \/ \E t \in Callers : Call(t)
    \/ \E t \in Callers : Acquire(t)
    \/ \E t \in Callers : Issue(t)
    \/ \E t \in Callers : QueryReturns(t)
    \/ \E t \in Callers : QueryFails(t)
    \/ \E t \in Callers : Finish(t)

LockStart == Init /\ ~repo

LockSpec == LockStart /\ [][LockNext]_vars

\* ------------------------------------------------------- the parser pool

contains_key(map, key) == key \in DOMAIN map

insert(map, key, value) ==
    [k \in DOMAIN map \cup {key} |-> IF k = key THEN value ELSE map[k]]

\* Parser::new(): the n-th parser thread t constructs for the language.
NewParser(t, language) ==
    [thread |-> t, language |-> language,
     n |-> 1 + Cardinality({p \in constructed : p.thread = t /\ p.language = language})]

\* Mutant: the parser is constructed and inserted on every call.
get_parser_always(t, language) ==
    [parsers |-> insert(PARSERS[t], language, NewParser(t, language)),
     constructed |-> constructed \cup {NewParser(t, language)}]

\* ParserPool::get_parser on thread t. The grammars are the ones compiled
\* in, so get_tree_sitter_language and set_language return Ok.
get_parser(t, language) ==
    IF ~contains_key(PARSERS[t], language)
    THEN [parsers |-> insert(PARSERS[t], language, NewParser(t, language)),
          constructed |-> constructed \cup {NewParser(t, language)}]
    ELSE [parsers |-> PARSERS[t], constructed |-> constructed]

\* ParserPool::parse on thread t: the parser returns a tree or None.
Parse(t) ==
    /\ parses[t] < MaxParses
    /\ parses' = [parses EXCEPT ![t] = @ + 1]
    /\ \E language \in Languages, tree \in {"tree", "Parse"} :
        LET got == get_parser(t, language) IN
        /\ PARSERS' = [PARSERS EXCEPT ![t] = got.parsers]
        /\ constructed' = got.constructed
        /\ uses' = uses \cup {[parser |-> got.parsers[language], thread |-> t,
                               language |-> language]}
        /\ parsed' = [parsed EXCEPT ![t] = tree]
    /\ UNCHANGED <<indexVars, lockVars, crawlVars, extractVars, queryVars, keyVars>>

PoolNext == \E t \in Threads : Parse(t)

PoolStart == Init /\ ~repo

PoolSpec == PoolStart /\ [][PoolNext]_vars

\* ------------------------------------------------------------ the crawler

Range(seq) == {seq[k] : k \in DOMAIN seq}

DirNames == Range(ignore_patterns) \cup {"src"}

\* The files a tree of the model can hold.
DiskFiles ==
    {<<f>> : f \in Paths}
        \cup {<<d, "a.py">> : d \in DirNames}
        \cup {<<"src", d, "b.py">> : d \in {"node_modules", "venv"}}

\* The trees: a few files of DiskFiles, or one file of another name beside
\* n.txt.
Disks ==
    {files \in SUBSET DiskFiles : Cardinality(files) <= MaxEntries}
        \cup {{<<f>>, <<"n.txt">>} : f \in OtherNames}

VcsRules == {{}, {"node_modules"}, {"src"}}

IsPrefix(d, f) == Len(d) < Len(f) /\ SubSeq(f, 1, Len(d)) = d

\* The entries of directory d: its files and its subdirectories.
Entries(d) ==
    {SubSeq(f, 1, Len(d) + 1) : f \in {g \in disk : IsPrefix(d, g)}}

is_file(path) == path \in disk

file_name(path) == path[Len(path)]

\* WalkBuilder::hidden(true): names starting with a dot are skipped.
Hidden(name) == name \in {".git", ".venv"}

\* An override glob "!**/{pattern}" ignores every entry of that name.
OverrideIgnores(ov, path) == file_name(path) \in ov

\* The walker skips an entry the override matcher, the hidden filter or the
\* VCS ignore rules exclude; a skipped directory is not read.
Skipped(path) ==
    \/ OverrideIgnores(overrides, path)
    \/ Hidden(file_name(path))
    \/ crawler.git_ignore /\ file_name(path) \in vcs_ignored

\* Crawler::new(config) and the start of crawl(): the WalkBuilder is built.
CrawlBegin ==
    /\ cpc \in {"idle", "done"}
    /\ disk' \in Disks
    /\ vcs_ignored' \in VcsRules
    /\ \E languages \in LanguageFilters, git_ignore \in BOOLEAN :
        crawler' = [languages |-> languages, git_ignore |-> git_ignore,
                    ignore_patterns |-> ignore_patterns]
    /\ overrides' = {}
    /\ ci' = 1
    /\ cpc' = "patterns"
    /\ pending' = {}
    /\ descended' = {}
    /\ found' = {}
    /\ UNCHANGED <<indexVars, lockVars, poolVars, extractVars, queryVars, keyVars>>

\* One iteration of `for pattern in &self.config.ignore_patterns`: a fresh
\* OverrideBuilder holding the one glob is built, and builder.overrides
\* replaces the matcher set before.
AddPattern ==
    /\ cpc = "patterns"
    /\ ci <= Len(crawler.ignore_patterns)
    /\ overrides' = {crawler.ignore_patterns[ci]}
    /\ ci' = ci + 1
    /\ UNCHANGED <<disk, vcs_ignored, crawler, cpc, pending, descended, found>>
    /\ UNCHANGED <<indexVars, lockVars, poolVars, extractVars, queryVars, keyVars>>

\* builder.build_parallel().run(..) starts at the root.
WalkBegin ==
    /\ cpc = "patterns"
    /\ ci > Len(crawler.ignore_patterns)
    /\ pending' = {<< >>}
    /\ cpc' = "walk"
    /\ UNCHANGED <<disk, vcs_ignored, crawler, ci, overrides, descended, found>>
    /\ UNCHANGED <<indexVars, lockVars, poolVars, extractVars, queryVars, keyVars>>

\* A walker thread reads a directory: the visitor is called on each entry
\* that is not skipped, and sends the files of a wanted language.
ReadDir(d) ==
    /\ cpc = "walk"
    /\ d \in pending
    /\ LET entries == {e \in Entries(d) : ~Skipped(e)} IN
        /\ pending' = (pending \ {d}) \cup {e \in entries : ~is_file(e)}
        /\ found' = found \cup
                {[path |-> e, language |-> Detected[file_name(e)]] :
                    e \in {x \in entries : /\ is_file(x)
                                           /\ Supported(file_name(x), crawler.languages)}}
    /\ descended' = descended \cup {d}
    /\ UNCHANGED <<disk, vcs_ignored, crawler, cpc, ci, overrides>>
    /\ UNCHANGED <<indexVars, lockVars, poolVars, extractVars, queryVars, keyVars>>

\* The walk is over: drop(tx) and the files are collected and returned.
CrawlReturn ==
    /\ cpc = "walk"
    /\ pending = {}
    /\ cpc' = "done"
    /\ UNCHANGED <<disk, vcs_ignored, crawler, ci, overrides, pending, descended, found>>
    /\ UNCHANGED <<indexVars, lockVars, poolVars, extractVars, queryVars, keyVars>>

CrawlNext ==
    \/ CrawlBegin
    \/ AddPattern
    \/ WalkBegin
    \/ \E d \in pending : ReadDir(d)
    \/ CrawlReturn

CrawlStart == Init /\ ~repo

CrawlSpec == CrawlStart /\ [][CrawlNext]_vars

\* ----------------------------------------------------------- query text
\* The Cypher text GraphWriter and GraphSchema build with format!.

\* The characters the texts of the model are made of.
Chars == << "\\", "'", "\n", "\r", "\t", "a", "n" >>

RECURSIVE TextsOfLen(_)
TextsOfLen(n) ==
    IF n = 0 THEN {""}
    ELSE {s \o Chars[k] : s \in TextsOfLen(n - 1), k \in DOMAIN Chars}

Texts == UNION {TextsOfLen(n) : n \in 0..MaxChars}

\* str::replace(from, to) for a pattern of one character
RECURSIVE replace(_, _, _)
replace(s, from, to) ==
    IF s = "" THEN ""
    ELSE (IF SubSeq(s, 1, 1) = from THEN to ELSE SubSeq(s, 1, 1))
            \o replace(SubSeq(s, 2, Len(s)), from, to)

\* Mutant: the backslash is replaced last.
escape_string_backslashLast(s) ==
    replace(replace(replace(replace(replace(s, "'", "\\'"), "\n", "\\n"),
                            "\r", "\\r"), "\t", "\\t"), "\\", "\\\\")

escape_string(s) ==
    replace(replace(replace(replace(replace(s, "\\", "\\\\"), "'", "\\'"),
                            "\n", "\\n"), "\r", "\\r"), "\t", "\\t")

\* Language::name, which Display writes
language_name(language) == IF language = "Cpp" THEN "C++" ELSE language

QueryKinds ==
    {"file", "symbol", "parent", "import", "call", "inheritance", "delete_file",
     "cleanup", "get_metadata", "set_metadata"}

\* The string values a query of the kind embeds between quotes, in order,
\* each with the text format! puts there.  The values of the model are all
\* the text v, but for the language.
Embedded(kind, v, language) ==
    LET escaped(value) == [value |-> value, literal |-> escape_string(value)]
        written(value) == [value |-> value, literal |-> value]
    IN  CASE kind = "file" -> << escaped(v), escaped(language_name(language)), escaped(v) >>
          [] kind = "symbol" ->
                << escaped(v), escaped(v), escaped(v), escaped(v), escaped("public"),
                   escaped(v), written(language_name(language)), escaped(v) >>
          [] kind \in {"parent", "call", "inheritance", "set_metadata"} ->
                << escaped(v), escaped(v) >>
          [] kind = "import" -> << escaped(v), escaped(v), escaped(v), escaped(v) >>
          [] kind \in {"delete_file", "cleanup", "get_metadata"} -> << escaped(v) >>

\* An operation of GraphWriter or GraphSchema is called with its arguments.
QueryCalled ==
    /\ built = NoQuery
    /\ \E kind \in QueryKinds, v \in Texts, language \in Languages :
        built' = [kind |-> kind, v |-> v, language |-> language, embedded |-> << >>]
    /\ UNCHANGED <<indexVars, lockVars, poolVars, crawlVars, extractVars, keyVars>>

\* format!(..) builds the text of the query.
FormatQuery ==
    /\ built.kind # None
    /\ built.embedded = << >>
    /\ built' = [built EXCEPT !.embedded = Embedded(built.kind, built.v, built.language)]
    /\ UNCHANGED <<indexVars, lockVars, poolVars, crawlVars, extractVars, keyVars>>

\* graph.query(&query).execute().await: the operation goes on or returns.
QuerySent ==
    /\ built.embedded # << >>
    /\ built' = NoQuery
    /\ UNCHANGED <<indexVars, lockVars, poolVars, crawlVars, extractVars, keyVars>>

QueryNext ==
    \/ QueryCalled
    \/ FormatQuery
    \/ QuerySent

QueryStart == Init /\ ~repo

QuerySpec == QueryStart /\ [][QueryNext]_vars

\* ------------------------------------------------------------- path keys
\* The key a file gets from the full indexer and from an update, for a root
\* that is the work tree of the repository or a directory in it.

KeyRoots == {".", "./sub", "./sub/dir"}

\* Mutant: the crawled path is kept as the key.
relative_path_unstripped(path, root) == path

\* parse_file: file.path.strip_prefix(root).unwrap_or(&file.path)
relative_path(path, root) == strip_prefix(path, root)

\* delta.new_file().path(): the path of the file from the work tree that
\* Repository::discover found, here ".".
delta_path(path) == SubSeq(path, 3, Len(path))

\* A run is configured on a root that holds some source files.
KeyStart ==
    /\ key_pc \in {"idle", "indexed"}
    /\ key_root' \in KeyRoots
    /\ key_files' \in SUBSET {p \in Paths : Supported(p, NoLanguages)} \ {{}}
    /\ keys' = {}
    /\ key_change' = NoChange
    /\ key_pc' = "full"
    /\ UNCHANGED <<indexVars, lockVars, poolVars, crawlVars, extractVars, queryVars>>

\* FullIndexer::run: every crawled file is written under its relative path.
KeyFullIndex ==
    /\ key_pc = "full"
    /\ keys' = {relative_path(join(key_root, rel), key_root) : rel \in key_files}
    /\ key_pc' = "indexed"
    /\ UNCHANGED <<key_root, key_files, key_change>>
    /\ UNCHANGED <<indexVars, lockVars, poolVars, crawlVars, extractVars, queryVars>>

\* IncrementalIndexer::run reaches a change of a file under the root.
KeyChange ==
    /\ key_pc = "indexed"
    /\ \E rel \in key_files, kind \in {"Deleted", "Modified", "Added"} :
        /\ key_change' = [kind |-> kind, file |-> rel,
                          path |-> delta_path(join(key_root, rel))]
        /\ key_pc' = IF DeleteFirst(key_change') = None THEN "parse" ELSE "change"
    /\ UNCHANGED <<key_root, key_files, keys>>
    /\ UNCHANGED <<indexVars, lockVars, poolVars, crawlVars, extractVars, queryVars>>

\* delete_file(change.path)
KeyDelete ==
    /\ key_pc = "change"
    /\ keys' = keys \ {DeleteFirst(key_change)}
    /\ key_pc' = IF key_change.kind = "Deleted" THEN "indexed" ELSE "parse"
    /\ key_files' = IF key_change.kind = "Deleted"
                    THEN key_files \ {key_change.file} ELSE key_files
    /\ UNCHANGED <<key_root, key_change>>
    /\ UNCHANGED <<indexVars, lockVars, poolVars, crawlVars, extractVars, queryVars>>

\* parse_and_write: config.root.join(path) is read and the file is written
\* under the path of the change; a file that is not there is a failure the
\* loop counts.
KeyParseAndWrite ==
    /\ key_pc = "parse"
    /\ keys' = IF \E rel \in key_files : join(key_root, key_change.path) = join(key_root, rel)
               THEN keys \cup {key_change.path}
               ELSE keys
    /\ key_pc' = "indexed"
    /\ UNCHANGED <<key_root, key_files, key_change>>
    /\ UNCHANGED <<indexVars, lockVars, poolVars, crawlVars, extractVars, queryVars>>

KeyNext ==
    \/ KeyStart
    \/ KeyFullIndex
    \/ KeyChange
    \/ KeyDelete
    \/ KeyParseAndWrite

KeyStartState == Init /\ ~repo

KeySpec == KeyStartState /\ [][KeyNext]_vars

\* ------------------------------------------- the full run up to the write
\* One full run with a reachable database, from the connection to the start
\* of the bulk write, with the crawl run step by step where the pipeline
\* calls it.

\* FullIndexer::run is called.
LiveStart ==
    /\ runs = 0
    /\ FullStart

\* The backend answers: connect, initialize and clear return Ok.
LiveBackend ==
    \/ FullConnectOk
    \/ FullInitialize
    \/ FullClearOk

\* Crawler::new(CrawlerConfig { root, languages, threads, ..Default::default() })
\* and the steps of crawl().
LiveCrawlStep ==
    /\ pc = "f_crawl"
    /\ cpc # "done"
    /\ \/ /\ CrawlBegin
          /\ crawler'.languages = config.languages
          /\ crawler'.git_ignore
       \/ AddPattern
       \/ WalkBegin
       \/ \E d \in pending : ReadDir(d)
       \/ CrawlReturn

\* crawl() has returned its files: the parse tasks are spawned.
LiveCrawled ==
    /\ cpc = "done"
    /\ FullCrawl

\* The pool threads and the collector loop.
LiveParse ==
    \/ \E t \in Threads : WorkerTake(t)
    \/ \E t \in Threads : WorkerParseOk(t)
    \/ \E t \in Threads : WorkerParseErr(t)
    \/ \E t \in Threads : WorkerExit(t)
    \/ FullRecv
    \/ FullCollectEnd

LiveNext ==
    \/ LiveStart
    \/ LiveBackend
    \/ LiveCrawlStep
    \/ LiveCrawled
    \/ LiveParse

LiveInit == Init /\ ~repo

\* The threads of the walker and of the pool run, and run() is polled: a step
\* that can be taken is not put off for ever.
LiveSpec == LiveInit /\ [][LiveNext]_vars /\ WF_vars(LiveNext)

\* ---------------------------------------------------------------- extraction

\* A path with the extension of the language.
SampleFile(language) ==
    CASE language = "Python" -> "x.py"
      [] language = "Rust" -> "x.rs"
      [] language = "JavaScript" -> "x.js"
      [] language = "TypeScript" -> "x.ts"
      [] language = "Go" -> "x.go"
      [] language = "Cpp" -> "x.cpp"

\* extract() is called with the tree of a text of the language.
ExtractBegin ==
    /\ xpc = "idle"
    /\ \E language \in Languages : \E source \in Programs(language) :
        input' = [language |-> language, file_path |-> SampleFile(language),
                  source |-> source, root |-> Tree(language, source)]
    /\ output' = NoOutput
    /\ xpc' = "symbols"
    /\ UNCHANGED <<indexVars, lockVars, poolVars, crawlVars, queryVars, keyVars>>

ExtractSymbols ==
    /\ xpc = "symbols"
    /\ output' = [file_path |-> input.file_path, language |-> input.language,
                  symbols |-> extract_symbols(input.language, input.root, input.file_path)]
    /\ xpc' = "imports"
    /\ UNCHANGED <<input, indexVars, lockVars, poolVars, crawlVars, queryVars, keyVars>>

ExtractImports ==
    /\ xpc = "imports"
    /\ output' = [file_path |-> output.file_path, language |-> output.language,
                  symbols |-> output.symbols,
                  imports |-> extract_imports(input.language, input.root, input.file_path)]
    /\ xpc' = "calls"
    /\ UNCHANGED <<input, indexVars, lockVars, poolVars, crawlVars, queryVars, keyVars>>

ExtractCalls ==
    /\ xpc = "calls"
    /\ output' = [file_path |-> output.file_path, language |-> output.language,
                  symbols |-> output.symbols, imports |-> output.imports,
                  calls |-> extract_calls(input.language, input.root, output.symbols)]
    /\ xpc' = "inheritance"
    /\ UNCHANGED <<input, indexVars, lockVars, poolVars, crawlVars, queryVars, keyVars>>

ExtractInheritance ==
    /\ xpc = "inheritance"
    /\ output' = [file_path |-> output.file_path, language |-> output.language,
                  content_hash |-> input.source, line_count |-> line_count(input.root),
                  symbols |-> output.symbols, imports |-> output.imports,
                  calls |-> output.calls,
                  inheritance |->
                      extract_inheritance(input.language, input.root, output.symbols)]
    /\ xpc' = "done"
    /\ UNCHANGED <<input, indexVars, lockVars, poolVars, crawlVars, queryVars, keyVars>>

\* Ok(FileSymbols { .. }); the next call starts afresh.
ExtractReturn ==
    /\ xpc = "done"
    /\ xpc' = "idle"
    /\ input' = NoInput
    /\ UNCHANGED <<output, indexVars, lockVars, poolVars, crawlVars, queryVars, keyVars>>

ExtractNext ==
    \/ ExtractBegin
    \/ ExtractSymbols
    \/ ExtractImports
    \/ ExtractCalls
    \/ ExtractInheritance
    \/ ExtractReturn

ExtractStart == Init /\ ~repo

ExtractSpec == ExtractStart /\ [][ExtractNext]_vars

\* --------------------------------------------------------------- properties

\* What the graph holds for a path: its File node and the nodes whose
\* file_path is the path.
PathNodes(g, path) ==
    ({FileNode(path)} \cap DOMAIN g.nodes) \cup DeletedByPath(g, path)

EdgesAt(g, ns) == {e \in g.edges : e.src \in ns \/ e.dst \in ns}

\* n is the node of a symbol of fs, with that symbol's properties.
IsSymbolOf(g, n, fs) ==
    \E k \in DOMAIN fs.symbols :
        /\ n = SymbolNode(fs.symbols[k])
        /\ g.nodes[n].name = fs.symbols[k].name
        /\ g.nodes[n].file_path = fs.file_path
        /\ g.nodes[n].start_line = fs.symbols[k].start_line
        /\ g.nodes[n].end_line = fs.symbols[k].end_line

\* e is a relationship that writing fs creates.
IsEdgeOf(g, e, fs) ==
    \/ /\ e.type = "CONTAINS"
       /\ e.src = FileNode(fs.file_path)
       /\ IsSymbolOf(g, e.dst, fs)
    \/ /\ e.type = "CONTAINS"
       /\ \E k \in DOMAIN fs.symbols :
            /\ fs.symbols[k].parent_id # None
            /\ HasProp(g, e.src, "id", fs.symbols[k].parent_id)
            /\ HasProp(g, e.dst, "id", fs.symbols[k].id)
    \/ /\ e.type = "IMPORTS"
       /\ e.src = FileNode(fs.file_path)
       /\ \E k \in DOMAIN fs.imports : e.dst = <<"Module", fs.imports[k].target>>
    \/ /\ e.type = "CALLS"
       /\ \E k \in DOMAIN fs.calls :
            /\ HasProp(g, e.src, "id", fs.calls[k].caller_id)
            /\ e.dst[1] = "Function"
            /\ HasProp(g, e.dst, "name", fs.calls[k].callee_name)
    \/ /\ e.type = "INHERITS"
       /\ \E k \in DOMAIN fs.inheritance :
            /\ HasProp(g, e.src, "id", fs.inheritance[k].child_id)
            /\ e.dst[1] \in ParentLabels
            /\ HasProp(g, e.dst, "name", fs.inheritance[k].parent_name)

\* Everything the graph holds for the path comes from fs (from nothing, when
\* the file could not be parsed).
NothingStale(g, path, fs) ==
    IF fs = NoFileSymbols
    THEN PathNodes(g, path) = {}
    ELSE /\ fs.file_path = path
         /\ \A n \in DeletedByPath(g, path) : IsSymbolOf(g, n, fs)
         /\ \A e \in EdgesAt(g, PathNodes(g, path)) : IsEdgeOf(g, e, fs)

Processing(kind) ==
    /\ mode = "inc"
    /\ i \in DOMAIN changes
    /\ changes[i].kind = kind

\* C1: for a Modified change, delete_file(path) has completed when the path
\* is parsed and upserted, and once the change is processed no Symbol or
\* relationship of the previous version of the file is left in the graph.
ModifiedLeavesNothingStale ==
    /\ (Processing("Modified") /\ pc = "i_parse" => PathNodes(graph, changes[i].path) = {})
    /\ (Processing("Modified") /\ pc = "write"
            /\ Len(queries) = Len(WriteFileQueries(file_symbols))
            => PathNodes(graph, changes[i].path) = {})
    /\ (Processing("Modified") /\ pc = "i_next"
            => NothingStale(graph, changes[i].path, file_symbols))

ModifiedWitness ==
    /\ Processing("Modified")
    /\ pc = "i_next"
    /\ nodes_deleted > 0
    /\ file_symbols # NoFileSymbols
    /\ queries = << >>
    /\ DeletedByPath(graph, changes[i].path) # {}

\* C2: for a Renamed change no node is left under the old path, and the
\* symbols extracted from the file carry the new path.
RenamedMovesToNewPath ==
    Processing("Renamed") /\ pc = "i_next"
        => /\ PathNodes(graph, changes[i].old_path) = {}
           /\ file_symbols # NoFileSymbols
                => /\ file_symbols.file_path = changes[i].path
                   /\ \A k \in DOMAIN file_symbols.symbols :
                        /\ file_symbols.symbols[k].file_path = changes[i].path
                        /\ SymbolNode(file_symbols.symbols[k]) \in DOMAIN graph.nodes
                            => HasProp(graph, SymbolNode(file_symbols.symbols[k]),
                                       "file_path", changes[i].path)

RenamedWitness ==
    /\ Processing("Renamed")
    /\ pc = "i_next"
    /\ nodes_deleted > 0
    /\ file_symbols # NoFileSymbols
    /\ queries = << >>
    /\ DeletedByPath(graph, changes[i].path) # {}

DryRun == mode = "inc" /\ config.dry_run

\* C3: a run with dry_run = true never changes the graph.
DryRunNeverWrites ==
    [][DryRun /\ pc \notin {"idle", "done"} => graph' = graph]_vars

DryRunWitness ==
    /\ DryRun
    /\ pc = "done"
    /\ result.ok
    /\ changes # << >>
    /\ \E k \in DOMAIN changes : PathNodes(graph, changes[k].path) # {}

\* C4 as the specification states it: a dry run fails only when the VCS
\* side fails (the repository cannot be opened or the diff fails).
DryRunFailsOnlyOnDiff ==
    DryRun /\ pc = "done" /\ ~result.ok => result.err \in {"not_a_repository", "diff"}

\* C4: a dry run fails only in a step up to the diff: opening the
\* repository, connecting to the database, reading last_indexed_commit (the
\* query fails, or nothing is stored and no since was given), or the diff
\* itself; once the diff is computed it returns success.
DryRunFailsUpToDiff ==
    /\ DryRun /\ pc = "done" /\ ~result.ok
        => result.err \in {"not_a_repository", "connect", "metadata_query",
                           "no_previous_index", "diff"}
    /\ DryRun => pc \notin {"i_next", "delete", "i_parse", "write", "i_head"}

DryRunFailureWitness ==
    /\ DryRun
    /\ pc = "done"
    /\ result.err = "connect"

\* C5: the since-reference is the argument when one is given, else the stored
\* last_indexed_commit; with neither the run fails, and no step up to there
\* computes a diff or writes to the graph.
SinceIsArgumentElseStored ==
    [][/\ pc \in {"i_open", "i_connect", "i_since"} => graph' = graph /\ changes' = << >>
       /\ pc = "i_since" =>
            LET stored == get_metadata(graph, LAST_INDEXED_COMMIT) IN
            IF config.since # None
            THEN pc' = "i_diff" /\ since' = config.since
            ELSE IF stored # None
            THEN \/ pc' = "i_diff" /\ since' = stored
                 \/ pc' = "done" /\ result'.err = "metadata_query"
            ELSE pc' = "done" /\ result'.err \in {"no_previous_index", "metadata_query"}]_vars

SinceWitness ==
    /\ mode = "inc"
    /\ pc = "done"
    /\ result.err = "no_previous_index"
    /\ DOMAIN graph.nodes # {}

\* C6: a file that fails is logged and counted once and the run goes on: the
\* failure counter equals the number of files that failed, and a run that
\* returns success has processed every discovered file or change.
PerFileFailuresAreLocal ==
    /\ mode = "inc" => stats.files_failed = Cardinality(warned)
    /\ mode = "full" => /\ failed_count = Cardinality(warned)
                        /\ pc # "f_collect" => stats.files_failed = Cardinality(warned)
    /\ mode = "inc" /\ pc = "done" /\ result.ok /\ ~config.dry_run
        => /\ i = Len(changes) + 1
           /\ stats.files_parsed + stats.files_failed
                = Cardinality({k \in DOMAIN changes : changes[k].kind # "Deleted"})
    /\ mode = "full" /\ pc = "done" /\ result.ok
        => /\ unparsed = {}
           /\ stats.files_parsed + stats.files_failed = stats.files_discovered
           /\ write_stats.files_written = stats.files_parsed

PerFileFailureWitness ==
    /\ mode = "inc"
    /\ pc = "done"
    /\ result.ok
    /\ Len(changes) = 2
    /\ changes[1].path \in warned
    /\ stats.files_failed = 1
    /\ stats.files_parsed = 1

Recorded(g) == get_metadata(g, LAST_INDEXED_COMMIT)

\* C7: last_indexed_commit is set to a new revision only by the last step of
\* a run, with HEAD, when every file has been handled and the run returns
\* success; a run that returns an error leaves the recorded revision alone.
CommitRecordedOnSuccessOnly ==
    [][/\ Recorded(graph') # Recorded(graph) /\ Recorded(graph') # None
            => /\ pc \in {"f_head", "i_head"}
               /\ pc' = "done"
               /\ result'.ok
               /\ Recorded(graph') = head
               /\ mode = "full" => wi = Len(collected) + 1
               /\ mode = "inc" => i = Len(changes) + 1
       /\ pc' = "done" /\ pc # "done" /\ ~result'.ok => Recorded(graph') = Recorded(graph)]_vars

CommitRecordedWitness ==
    /\ mode = "inc"
    /\ pc = "done"
    /\ result.ok
    /\ ~config.dry_run
    /\ changes # << >>
    /\ since # head
    /\ Recorded(graph) = head

Rank(p) ==
    CASE p = "f_connect" -> 1
      [] p = "f_init" -> 2
      [] p = "f_clear" -> 3
      [] p = "f_crawl" -> 4
      [] p = "f_collect" -> 5
      [] p \in {"f_write", "write"} -> 6
      [] p = "f_head" -> 7
      [] OTHER -> 8

ParsingOver ==
    /\ unparsed = {}
    /\ \A t \in Threads : worker[t].st = "exit"
    /\ chan = << >>
    /\ Len(collected) + failed_count = stats.files_discovered

Labels(g) == {n[1] : n \in DOMAIN g.nodes}
Types(g) == {e.type : e \in g.edges}

SameCounts(g1, g2) ==
    /\ \A l \in Labels(g1) \cup Labels(g2) :
        Cardinality({n \in DOMAIN g1.nodes : n[1] = l})
            = Cardinality({n \in DOMAIN g2.nodes : n[1] = l})
    /\ \A t \in Types(g1) \cup Types(g2) :
        Cardinality({e \in g1.edges : e.type = t})
            = Cardinality({e \in g2.edges : e.type = t})

\* delete_file(fs.file_path) followed by write_file(fs), both without failure
RoundTrip(g, fs) ==
    ExecuteAll(ExecuteAll(g, DeleteFileQueries(fs.file_path)), WriteFileQueries(fs))

\* C9: in a graph made by writing a set of files, deleting one of them and
\* writing the same FileSymbols again gives the same number of nodes of every
\* label and of relationships of every type.
RoundTripKeepsCounts ==
    mode = "full" /\ pc = "f_head" /\ config.clear_existing
        => \A k \in DOMAIN collected : SameCounts(RoundTrip(graph, collected[k]), graph)

HasNothingOf(g, fs) == PathNodes(g, fs.file_path) = {}

HasAllOf(g, fs) ==
    /\ FileNode(fs.file_path) \in DOMAIN g.nodes
    /\ \A k \in DOMAIN fs.symbols :
        /\ SymbolNode(fs.symbols[k]) \in DOMAIN g.nodes
        /\ [type |-> "CONTAINS", src |-> FileNode(fs.file_path),
            dst |-> SymbolNode(fs.symbols[k])] \in g.edges
    /\ \A k \in DOMAIN fs.imports :
        /\ <<"Module", fs.imports[k].target>> \in DOMAIN g.nodes
        /\ [type |-> "IMPORTS", src |-> FileNode(fs.file_path),
            dst |-> <<"Module", fs.imports[k].target>>] \in g.edges
    /\ \A k \in DOMAIN fs.calls : QueryCall(g, fs.calls[k]) = g
    /\ \A k \in DOMAIN fs.inheritance : QueryInheritance(g, fs.inheritance[k]) = g

\* C10: whenever no write_file is in progress, the graph holds the last
\* written file completely or not at all.
WriteFileIsAtomic ==
    pc # "write" /\ file_symbols # NoFileSymbols
        => HasAllOf(graph, file_symbols) \/ HasNothingOf(graph, file_symbols)

\* The files of the bulk write that are written, in order.
WrittenFiles == SubSeq(collected, 1, wi - 1)

\* In a bulk write into a cleared graph, every target of the reference is
\* defined only by files written after file k.
TargetWrittenLater(k, labels, name) ==
    \A n \in DOMAIN graph.nodes :
        n[1] \in labels /\ HasProp(graph, n, "name", name)
            => /\ \E l \in k + 1 .. Len(WrittenFiles) :
                    graph.nodes[n].file_path = WrittenFiles[l].file_path
               /\ \A l \in 1 .. k : graph.nodes[n].file_path # WrittenFiles[l].file_path

\* After a bulk write into a cleared graph, a reference whose every target is
\* defined by a later file has no relationship.
NoEdgeToLaterTarget ==
    (mode = "full" /\ config.clear_existing /\ pc \in {"f_write", "f_head"})
        => \A k \in 1 .. Len(WrittenFiles) :
            /\ \A c \in DOMAIN WrittenFiles[k].calls :
                TargetWrittenLater(k, {"Function"}, WrittenFiles[k].calls[c].callee_name)
                    => ~ \E e \in graph.edges :
                            /\ e.type = "CALLS"
                            /\ HasProp(graph, e.src, "id", WrittenFiles[k].calls[c].caller_id)
            /\ \A h \in DOMAIN WrittenFiles[k].inheritance :
                TargetWrittenLater(k, ParentLabels, WrittenFiles[k].inheritance[h].parent_name)
                    => ~ \E e \in graph.edges :
                            /\ e.type = "INHERITS"
                            /\ HasProp(graph, e.src, "id", WrittenFiles[k].inheritance[h].child_id)

\* C12: a CALLS or INHERITS relationship appears only in the step that
\* executes the call or inheritance query of the file being written, from
\* the query's source symbol to a node of the right label and name that was
\* in the graph before the step; so a reference whose target is written
\* later in the same bulk write has no relationship afterwards.
EdgesOnlyToExistingTargets ==
    [][/\ \A e \in graph'.edges \ graph.edges :
            /\ e.type = "CALLS"
                => /\ pc = "write" /\ queries # << >> /\ Head(queries).q = "call"
                   /\ HasProp(graph, e.src, "id", Head(queries).arg.caller_id)
                   /\ e.dst \in DOMAIN graph.nodes
                   /\ e.dst[1] = "Function"
                   /\ HasProp(graph, e.dst, "name", Head(queries).arg.callee_name)
            /\ e.type = "INHERITS"
                => /\ pc = "write" /\ queries # << >> /\ Head(queries).q = "inheritance"
                   /\ HasProp(graph, e.src, "id", Head(queries).arg.child_id)
                   /\ e.dst \in DOMAIN graph.nodes
                   /\ e.dst[1] \in ParentLabels
                   /\ HasProp(graph, e.dst, "name", Head(queries).arg.parent_name)
       /\ NoEdgeToLaterTarget']_vars

EdgesNotRetriedWitness ==
    /\ mode = "full"
    /\ config.clear_existing
    /\ pc = "f_head"
    /\ Len(collected) = 2
    /\ collected[1].calls # << >>
    /\ \E n \in DOMAIN graph.nodes : n[1] = "Function" /\ HasProp(graph, n, "name", "g")
    /\ ~ \E e \in graph.edges : e.type \in {"CALLS", "INHERITS"}

\* C13 (as stated): the channel between the parse workers and the collector
\* has a capacity that does not grow with the input: it never holds every
\* discovered file at once when more than one was discovered.
ChannelIsBounded ==
    pc = "f_collect" /\ stats.files_discovered > 1 => Len(chan) < stats.files_discovered

\* C13 (as amended): the channel is unbounded: a worker that has parsed its
\* file can send at once whatever the channel holds, so the channel can hold
\* a record for every discovered file before the collector receives one.
SendNeverBlocks ==
    \A t \in Threads :
        (pc = "f_collect" /\ worker[t].st = "busy") => ENABLED WorkerParseOk(t)

ChannelHoldsEveryFile ==
    /\ pc = "f_collect"
    /\ stats.files_discovered = 2
    /\ Len(chan) = 2
    /\ collected = << >>
    /\ \E t \in Threads : worker[t].st = "exit"

\* C11: the operations of one handle are serialized: a task issues a query
\* only while it holds the mutex, so at most one query is in flight, and
\* from acquiring the mutex until it returns an operation keeps it, so all
\* its queries run under one hold.
OperationsAreSerialized ==
    [][\A t \in Callers :
        /\ op'[t].st = "query" => mutex' = t
        /\ op'[t].st = "locked" => mutex' = t
        /\ (mutex = t /\ op'[t].st # "idle") => (mutex' = t /\ op'[t].name = op[t].name)]_vars

OperationsOverlapWitness ==
    /\ op[1].name = "write_file" /\ op[1].st = "query" /\ op[1].left = 1
    /\ op[2].name = "delete_file" /\ op[2].st = "locking"

NeverDescendsIntoDenied ==
    /\ \A d \in descended : \A k \in DOMAIN d : d[k] \notin Range(crawler.ignore_patterns)
    /\ \A f \in found :
        \A k \in 1 .. Len(f.path) - 1 : f.path[k] \notin Range(crawler.ignore_patterns)

\* extract() has returned the FileSymbols of the source made of these items.
Extracted(language, source) ==
    /\ xpc = "done"
    /\ input.language = language
    /\ input.source = source

SymbolsOf(fs) == {fs.symbols[k] : k \in DOMAIN fs.symbols}

ParentKinds == {"Class", "Struct", "Interface", "Trait"}

\* C16: every Method symbol of an extracted FileSymbols has a parent_id that
\* is the id of a Class, Struct, Interface or Trait symbol of the same
\* FileSymbols.
MethodsHaveEmittedParent ==
    xpc = "done"
        => \A m \in SymbolsOf(output) :
            m.kind = "Method"
                => \E c \in SymbolsOf(output) :
                    c.kind \in ParentKinds /\ m.parent_id = c.id

\* C17: for `struct S; impl T for S { fn f(&self) {} }` the symbols include
\* Struct S and a Method f whose parent_id is the id of S, and the
\* inheritance list holds the record of child S and parent name T.
TraitImplMethodParentedToType ==
    Extracted("Rust", << "RsStructS", "RsImplTForS" >>)
        => \E s \in SymbolsOf(output) :
            /\ s.kind = "Struct" /\ s.name = "S"
            /\ \E f \in SymbolsOf(output) :
                f.kind = "Method" /\ f.name = "f" /\ f.parent_id = s.id
            /\ \E k \in DOMAIN output.inheritance :
                output.inheritance[k] = [child_id |-> s.id, parent_name |-> "T"]

\* C18: for a Python file of one class A with one method m, the symbols are
\* exactly two: A, a Class without parent, and m, a Method whose parent_id
\* is the id of A.
ClassWithMethodGivesTwoSymbols ==
    Extracted("Python", << "PyClassA" >>)
        => /\ Len(output.symbols) = 2
           /\ \E a, m \in SymbolsOf(output) :
                /\ a.kind = "Class" /\ a.name = "A" /\ a.parent_id = None
                /\ m.kind = "Method" /\ m.name = "m" /\ m.parent_id = a.id

\* C19: the symbols of a FileSymbols are in non-decreasing order of
\* start_line and its calls in non-decreasing order of call_site_line.
SymbolsAndCallsInSourceOrder ==
    xpc = "done"
        => /\ \A j, k \in DOMAIN output.symbols :
                j < k => output.symbols[j].start_line <= output.symbols[k].start_line
           /\ \A j, k \in DOMAIN output.calls :
                j < k => output.calls[j].call_site_line <= output.calls[k].call_site_line

\* C20: every symbol of an extracted FileSymbols has 1 <= start_line <=
\* end_line and the id "{file_path}:{name}:{start_line}".
SymbolLinesAndIdsAreSound ==
    xpc \in {"imports", "calls", "inheritance", "done"}
        => \A s \in SymbolsOf(output) :
            /\ 1 <= s.start_line
            /\ s.start_line <= s.end_line
            /\ s.id = s.file_path \o ":" \o s.name \o ":" \o ToString(s.start_line)
            /\ s.file_path = input.file_path

\* An arrow function bound on a later line than its declaration starts, and a
\* C++ method declaration on a later line than its declaration starts, have
\* been extracted.
ArrowAndDeclarationWitness ==
    \/ /\ Extracted("JavaScript", << "JsImport", "JsArrowH" >>)
       /\ \E s \in SymbolsOf(output) : s.name = "h" /\ s.start_line = 3
    \/ /\ Extracted("Cpp", << "CppInclude", "CppClassK" >>)
       /\ \E s \in SymbolsOf(output) :
            s.name = "K" /\ s.kind = "Method" /\ s.start_line = 5

TypeKinds == {"Class", "Struct", "Interface", "Trait", "Enum"}

\* C21: the child_id of every Inheritance record of an extracted FileSymbols
\* is the id of a Class, Struct, Interface, Trait or Enum symbol of the same
\* FileSymbols, and of no Function or Method.
InheritanceChildIsAType ==
    xpc = "done"
        => \A k \in DOMAIN output.inheritance :
            /\ \E s \in SymbolsOf(output) :
                s.id = output.inheritance[k].child_id /\ s.kind \in TypeKinds
            /\ \A s \in SymbolsOf(output) :
                s.id = output.inheritance[k].child_id
                    => s.kind \notin {"Function", "Method"}

\* The symbol nodes of the graph that carry the id.
NodesWithId(g, id) == {n \in DOMAIN g.nodes : HasProp(g, n, "id", id)}

\* C22: after write_file has written a FileSymbols in which two symbols have
\* the same id, the graph holds exactly one symbol node with that id, and it
\* carries the properties of the later symbol, whatever the kinds of the two.
SameIdSecondOverwritesFirst ==
    (pc # "write" /\ file_symbols # NoFileSymbols /\ HasAllOf(graph, file_symbols))
        => \A j, k \in DOMAIN file_symbols.symbols :
            (/\ j < k
             /\ file_symbols.symbols[j].id = file_symbols.symbols[k].id
             /\ \A l \in DOMAIN file_symbols.symbols :
                    l > k => file_symbols.symbols[l].id # file_symbols.symbols[k].id)
                => /\ NodesWithId(graph, file_symbols.symbols[k].id)
                        = {SymbolNode(file_symbols.symbols[k])}
                   /\ HasProp(graph, SymbolNode(file_symbols.symbols[k]),
                              "end_line", file_symbols.symbols[k].end_line)

\* C23: a failure of an index query of initialize that is not caused by an
\* index that exists already is fatal: run() returns the error, and nothing
\* is cleared, crawled or written.
InitializeFailureIsFatal ==
    [][(pc = "f_init" /\ faults' # faults)
        => (pc' = "done" /\ result' # Ok /\ graph' = graph)]_vars

\* What delete_file(path) is to remove: the File node of the path, the nodes
\* it CONTAINS and the nodes whose file_path is the path.
BelongsTo(g, n, path) ==
    \/ n = FileNode(path)
    \/ [type |-> "CONTAINS", src |-> FileNode(path), dst |-> n] \in g.edges
    \/ HasProp(g, n, "file_path", path)

\* C24: each query of delete_file(path) removes only nodes that belong to the
\* path, with all their relationships, and leaves every other node and
\* relationship as it was; when delete_file has returned, no node that belongs
\* to the path is left, and for a path that is not in the graph the graph is
\* unchanged and the run goes on.
DeleteFileRemovesThePathOnly ==
    [][(pc = "delete" /\ faults' = faults)
        => LET path == Head(queries).arg
               gone == DOMAIN graph.nodes \ DOMAIN graph'.nodes
           IN  /\ DOMAIN graph'.nodes \subseteq DOMAIN graph.nodes
               /\ \A n \in gone : BelongsTo(graph, n, path)
               /\ \A n \in DOMAIN graph'.nodes : graph'.nodes[n] = graph.nodes[n]
               /\ graph'.edges = {e \in graph.edges : e.src \notin gone /\ e.dst \notin gone}
               /\ pc' # "delete"
                    => /\ pc' = after
                       /\ result' = Running
                       /\ \A n \in DOMAIN graph'.nodes : ~BelongsTo(graph', n, path)
               /\ (\A n \in DOMAIN graph.nodes : ~BelongsTo(graph, n, path))
                    => graph' = graph]_vars

\* delete_file has removed the nodes of one path and another path's nodes
\* are in the graph.
DeleteFileWitness ==
    /\ mode = "inc"
    /\ pc \in {"i_parse", "i_next"}
    /\ nodes_deleted > 0
    /\ \E n \in DOMAIN graph.nodes : n[1] = "File"
    /\ i \in DOMAIN changes
    /\ PathNodes(graph, changes[i].path) = {}

\* C25: from_extension lower-cases its argument and maps py to Python, rs to
\* Rust, js, mjs and cjs to JavaScript, ts and tsx to TypeScript, go to Go,
\* cpp, cc, cxx, c++, hpp, hxx and h to C++ and everything else to absence;
\* a lower-case extension is in extensions(L) exactly when from_extension
\* maps it to L.  Stated of the extension of every file of the crawled tree
\* and of the language of every file the crawler returns.
LanguageRegistryIsConsistent ==
    LET registry ==
            [Python |-> {"py"}, Rust |-> {"rs"}, JavaScript |-> {"js", "mjs", "cjs"},
             TypeScript |-> {"ts", "tsx"}, Go |-> {"go"},
             Cpp |-> {"cpp", "cc", "cxx", "c++", "hpp", "hxx", "h"}]
        Registered(e) ==
            IF \E L \in DOMAIN registry : e \in registry[L]
            THEN CHOOSE L \in DOMAIN registry : e \in registry[L]
            ELSE None
    IN  /\ \A f \in disk :
            LET ext == extension(file_name(f)) IN
            ext # None
                => /\ from_extension(ext) = Registered(to_lowercase(ext))
                   /\ \A L \in Languages :
                        to_lowercase(ext) \in Range(extensions(L))
                            <=> from_extension(to_lowercase(ext)) = L
        /\ \A e \in found :
            /\ extension(file_name(e.path)) # None
            /\ e.language = Registered(to_lowercase(extension(file_name(e.path))))

\* The crawler has returned a file whose extension is written in upper case
\* and has left out a file whose extension no language has.
LanguageRegistryWitness ==
    /\ cpc = "done"
    /\ \E e \in found : file_name(e.path) = "m.PY" /\ e.language = "Python"
    /\ <<"n.txt">> \in disk
    /\ \A e \in found : e.path # <<"n.txt">>

\* Reading an escaped text back: a backslash and the character after it
\* stand for one character.
RECURSIVE unescape(_)
unescape(s) ==
    IF s = "" THEN ""
    ELSE IF SubSeq(s, 1, 1) = "\\" /\ Len(s) >= 2
         THEN (CASE SubSeq(s, 2, 2) = "n" -> "\n"
                 [] SubSeq(s, 2, 2) = "r" -> "\r"
                 [] SubSeq(s, 2, 2) = "t" -> "\t"
                 [] OTHER -> SubSeq(s, 2, 2))
                \o unescape(SubSeq(s, 3, Len(s)))
         ELSE SubSeq(s, 1, 1) \o unescape(SubSeq(s, 2, Len(s)))

\* The text has no raw newline, carriage return or tab, and no single quote
\* but after an escaping backslash.
RECURSIVE WellEscaped(_)
WellEscaped(s) ==
    IF s = "" THEN TRUE
    ELSE IF SubSeq(s, 1, 1) = "\\"
         THEN Len(s) >= 2 /\ WellEscaped(SubSeq(s, 3, Len(s)))
         ELSE /\ SubSeq(s, 1, 1) \notin {"'", "\n", "\r", "\t"}
              /\ WellEscaped(SubSeq(s, 2, Len(s)))

UpsertLeavesExactlyTheSymbols ==
    (/\ mode = "inc"
     /\ faults = 0
     /\ pc = "i_next"
     /\ i \in DOMAIN changes
     /\ file_symbols # NoFileSymbols
     /\ queries = << >>)
        => /\ file_symbols.file_path = changes[i].path
           /\ \A n \in DeletedByPath(graph, changes[i].path) :
                IsSymbolOf(graph, n, file_symbols)
           /\ \A k \in DOMAIN file_symbols.symbols :
                SymbolNode(file_symbols.symbols[k]) \in DOMAIN graph.nodes

\* C28: the path under which an update deletes and upserts a file is the
\* path under which the full indexer wrote it, for the work tree of the
\* repository and for a directory in it as root: once the update is past a
\* change, the graph holds the file under one key if it is on disk and under
\* none if it was deleted.
IncrementalKeyIsFullKey ==
    /\ key_pc \in {"change", "parse"}
        => key_change.path = relative_path(join(key_root, key_change.file), key_root)
    /\ key_pc = "indexed"
        => keys = {relative_path(join(key_root, rel), key_root) : rel \in key_files}

\* The paths of the records the collector has received.
CollectedPaths == {collected[k].file_path : k \in DOMAIN collected}

\* C29: when the collector loop of the full pipeline has ended, every
\* discovered file is counted once, as parsed or as failed: files_parsed +
\* files_failed = files_discovered, with every worker's increment of the
\* failure counter included.
EveryFileAccountedOnce ==
    (mode = "full" /\ pc \in {"f_write", "write", "f_head"})
        => /\ stats.files_parsed + stats.files_failed = stats.files_discovered
           /\ stats.files_parsed = Len(collected)
           /\ stats.files_failed = Cardinality(warned)
           /\ Cardinality(CollectedPaths) = Len(collected)
           /\ CollectedPaths \cap warned = {}

\* The collector loop has ended after one file was parsed and another failed.
AccountedWitness ==
    /\ mode = "full"
    /\ pc = "f_write"
    /\ stats.files_parsed = 1
    /\ stats.files_failed = 1

\* C30: a full run whose backend answers reaches the bulk write: the crawl
\* ends, its channel closed by the drop of every sender, and the collector
\* loop ends, every worker having dropped its sender after its last file,
\* parsed or failed.
FullRunReachesBulkWrite ==
    /\ (pc = "f_connect") ~> (pc = "f_crawl" /\ cpc = "done")
    /\ (pc = "f_collect") ~> (pc = "f_write")

\* The collector loop has ended after a file failed to parse, in a run whose
\* crawl read a directory.
BulkWriteWitness ==
    /\ pc = "f_write"
    /\ cpc = "done"
    /\ descended # {}
    /\ failed_count > 0


====
